---------------------------- MODULE Spec2Model ----------------------------
(***************************************************************************)
(* Model of the retry-and-normalize acquisition pipeline of                *)
(* YouTube-Analytics-Pro: the tenacity-based retry decorators              *)
(* (app/utils/retry.py), the call sites that use them, the hand-written    *)
(* retry loop of InstagramClientV2._make_api_request, and the scrape       *)
(* orchestrators of app/services.                                          *)
(*                                                                         *)
(* Durations are integers in half seconds, so that the default backoff     *)
(* multiplier 1.5 and its products with powers of two stay integral.       *)
(* A multiplier is kept as twice its value (1.5 is 3, 2.0 is 4).           *)
(***************************************************************************)
EXTENDS Integers, Sequences, FiniteSets, TLC

VARIABLES
    op,             \* the wrapped operation this call is about
    settings,       \* app.config.settings: the four RETRY_* values
    retry_count,    \* _make_api_request's retry_count argument
    response,       \* extract_response_body's argument (shape of the wrapper)
    pc,             \* position of the call: call, sleep, await, returned, raised
    attempt_number, \* tenacity's retry_state.attempt_number / the loop's attempt + 1
    outcomes,       \* one entry per execution of the operation's body
    sleeps,         \* the backoff sleeps performed so far, in half seconds
    last_error,     \* _make_api_request's last_error
    raised,         \* the exception that reached the caller
    result,         \* the value the caller received
    svc,            \* which orchestrator handles the request
    spc,            \* position of scrape: acquire, gather, returned, raised
    acquired,       \* whether the acquisition returned or raised, and str(e)
    task,           \* per analysis task: notstarted, running, ok, failed
    gathered,       \* per analysis task: what asyncio.gather collected for it
    scrape_result,  \* the result object scrape returned
    scrape_raised,  \* the exception scrape let through to its caller
    page,           \* the elements of the page (keys of the profile) as acquired
    snapshot,       \* the parsed page / profile_data the analysis tasks share
    ipc,            \* position of get_complete_profile_data
    max_posts,      \* its max_posts argument
    preview,        \* number of post links a profile response carries
    requests,       \* the scraping-API requests issued so far, in order
    worker,         \* the two to_thread workers of the first gather
    profile_data,   \* what the first gather handed back for get_profile_data
    post_urls,      \* the post URLs kept, and the response they came from
    detailed_posts, \* per kept URL: what get_post_details returned
    ig_result,      \* the dictionary get_complete_profile_data returned
    npc,            \* position of a CrawlbaseParser call: call, returned, raised
    nfun,           \* which parser method is called
    count_str,      \* parse_count_string's argument
    formatted,      \* the integer count_str was formatted from, or -1
    raw_data,       \* the count fields of the backend payload being parsed
    parsed,         \* what the parser method returned
    ypc,            \* position of POST /scrape/youtube: verify_api_key,
                    \* request, construct, call, scrape, quit, check, responded
    x_api_key,      \* the request's X-API-Key header (None: no such header)
    url,            \* request.url
    channel,        \* what the channel page shows: five texts and its anchors
    driver,         \* the browser session: none, open, closed, quit_failed
    step,           \* the next step of scrape's body
    cookies,        \* how reject_cookies ended: rejected or ignored
    texts,          \* scrape's locals channel_name .. description
    caught,         \* the exception scrape's except clause caught
    sequences,      \* how many times scrape's body has been started
    yt_attempts,    \* attempts of the retry decorator around scrape
    quits,          \* how many times scraper.quit() has been called
    quit_escaped,   \* the exception that left scraper.quit()
    yt_result,      \* the YouTubeScrapingResult scrape returned
    yt_raised,      \* the exception that left scrape
    yt_response,    \* the HTTP response of POST /scrape/youtube
    rpc,            \* position of POST /scrape/instagram or /scrape/website:
                    \* request, scrape, responded
    endpoint,       \* which of the two routes the request is for
    headers,        \* the request's X-API-Key header (None: no such header)
    username,       \* request.username (Instagram)
    api_response,   \* the HTTP response of the route
    analysis,       \* the WebsiteAnalysisResult of POST /analyze
    handlers,       \* concurrent POST /scrape/youtube requests: each one's
                    \* position, its local `scraper` and its step of scrape
    browsers        \* every browser session created so far

retryVars == <<op, settings, retry_count, response, pc, attempt_number,
               outcomes, sleeps, last_error, raised, result>>

scrapeVars == <<svc, spc, acquired, task, gathered, scrape_result, scrape_raised,
                page, snapshot>>

igVars == <<ipc, max_posts, preview, requests, worker, profile_data,
            post_urls, detailed_posts, ig_result>>

parseVars == <<npc, nfun, count_str, formatted, raw_data, parsed>>

ytVars == <<ypc, x_api_key, url, channel, driver, step, cookies, texts, caught, sequences,
            yt_attempts, quits, quit_escaped, yt_result, yt_raised, yt_response>>

apiVars == <<rpc, endpoint, headers, username, api_response, analysis>>

sessionVars == <<handlers, browsers>>

vars == <<retryVars, scrapeVars, igVars, parseVars, ytVars, apiVars, sessionVars>>

\* The variables each group of actions leaves alone.
notRetryVars == <<scrapeVars, igVars, parseVars, ytVars, apiVars, sessionVars>>
notScrapeVars == <<retryVars, igVars, parseVars, ytVars, apiVars, sessionVars>>
notIgVars == <<retryVars, scrapeVars, parseVars, ytVars, apiVars, sessionVars>>
notParseVars == <<retryVars, scrapeVars, igVars, ytVars, apiVars, sessionVars>>
notSessionVars == <<retryVars, scrapeVars, igVars, parseVars, ytVars, apiVars>>
notYtVars == <<retryVars, scrapeVars, igVars, parseVars, apiVars, sessionVars>>

-----------------------------------------------------------------------------
(* Bounds of the model *)

MaxAttempts == 4
MaxRetryCount == 2

(* Program constants *)

RETRY_ATTEMPTS == 3
RETRY_WAIT_SECONDS == 2
RETRY_BACKOFF_MULTIPLIER_X2 == 3
RETRY_MAX_WAIT_SECONDS == 10
DEFAULT_RETRY_COUNT == 2

None == "None"

Min(a, b) == IF a <= b THEN a ELSE b
Max(a, b) == IF a >= b THEN a ELSE b

RECURSIVE Pow(_, _)
Pow(b, e) == IF e = 0 THEN 1 ELSE b * Pow(b, e - 1)

\* Python's `a or b` on numbers and None: None and 0 are falsy.
PyOr(a, b) == IF a = None \/ a = 0 THEN b ELSE a

-----------------------------------------------------------------------------
(* Exception classes: the builtin and httpx classes the code names, with   *)
(* their base classes (isinstance follows the class hierarchy).            *)

ExceptionTypes ==
    {"Exception", "ConnectionError", "TimeoutError", "RequestError",
     "ConnectError", "TimeoutException", "HTTPStatusError",
     "ValueError", "PermissionError", "TypeError"}

Bases(t) ==
    CASE t = "ConnectError"     -> {"ConnectError", "RequestError", "Exception"}
      [] t = "TimeoutException" -> {"TimeoutException", "RequestError", "Exception"}
      [] OTHER                  -> {t, "Exception"}

IsInstance(t, classes) == Bases(t) \cap classes # {}

\* The spec's taxonomy: connection errors, timeouts and upstream status
\* errors are transient; malformed-request, authorization and programming
\* errors are fatal.
TransientTypes ==
    {"ConnectionError", "TimeoutError", "RequestError", "ConnectError",
     "TimeoutException", "HTTPStatusError"}
FatalTypes == {"ValueError", "PermissionError", "TypeError"}

\* What one execution of an operation's body produced, and by which execution.
NoOutcome == [kind |-> "none", type |-> None, by |-> 0]
Coroutine == [kind |-> "coroutine", type |-> None, by |-> 0]
Ok(i) == [kind |-> "ok", type |-> None, by |-> i]
Exc(t, i) == [kind |-> "exc", type |-> t, by |-> i]

-----------------------------------------------------------------------------
(* The retry decorators *)

\* create_retry_decorator: missing arguments fall back to the settings.
create_retry_decorator(exception_types, stop_attempts, wait_seconds, backoff_multiplier, max_wait_seconds) ==
    [stop       |-> PyOr(stop_attempts, settings.RETRY_ATTEMPTS),
     min        |-> 2 * PyOr(wait_seconds, settings.RETRY_WAIT_SECONDS),
     multiplier |-> PyOr(backoff_multiplier, settings.RETRY_BACKOFF_MULTIPLIER),
     max        |-> 2 * PyOr(max_wait_seconds, settings.RETRY_MAX_WAIT_SECONDS),
     types      |-> exception_types]

retry_http_calls ==
    create_retry_decorator(
        {"RequestError", "ConnectError", "TimeoutException",
         "HTTPStatusError", "ConnectionError", "TimeoutError"},
        None, None, None, None)

retry_external_calls ==
    create_retry_decorator(
        {"ConnectionError", "TimeoutError", "RequestError", "Exception"},
        None, None, None, None)

\* tenacity.stop_after_attempt(max): stop once attempt_number >= max.
StopOffByOne(n, max) == n > max
StopAfterAttempt(n, max) == n >= max

\* tenacity.retry_if_exception_type(types)
RetryIfExceptionType(t, types) == IsInstance(t, types)

\* tenacity.wait_exponential(multiplier, min, max) with exp_base 2, after
\* the failed attempt number n: max(max(0, min), min(multiplier * 2^(n-1), max)).
\* d.multiplier is twice the multiplier, so the product is in half seconds.
WaitExponential(n, d) ==
    Max(Max(0, d.min), Min(d.multiplier * Pow(2, n - 1), d.max))

\* with_retry_logging's wrapper: `result = func(...); return result`.
WithRetryLoggingDropsResult(v) == NoOutcome
WithRetryLoggingReturn(v) == v

-----------------------------------------------------------------------------
(* The decorated operations *)

SyncExternalOps == {"external_call", "extract_response_body"}
AsyncHttpOps == {"HTTPClient.get", "WebsiteHTTPClient.get"}
TenacityOps == SyncExternalOps \cup AsyncHttpOps
Ops == TenacityOps \cup {"_make_api_request"}

\* An `async def`: calling it only creates a coroutine object.
IsAsync(o) == o \in AsyncHttpOps

Decorator(o) ==
    IF o \in AsyncHttpOps THEN retry_http_calls ELSE retry_external_calls

\* Shapes of the scraping-API wrapper handed to extract_response_body.
ResponseShapes ==
    {"not_a_dict", "no_body", "body_dict", "body_json_str", "body_json_bytes",
     "body_bad_json", "body_other_type"}

\* CrawlbaseParser.extract_response_body, i-th execution of its body.
ExtractResponseBody(r, i) ==
    CASE r = "not_a_dict"      -> Exc("ValueError", i)
      [] r = "no_body"         -> Exc("ValueError", i)
      [] r = "body_dict"       -> Ok(i)
      [] r = "body_json_str"   -> Ok(i)
      [] r = "body_json_bytes" -> Ok(i)
      [] r = "body_bad_json"   -> Exc("ValueError", i)
      [] OTHER                 -> Exc("ValueError", i)

\* What the network does to one GET: a transport error or a status class.
NetOutcomes == {"ConnectError", "TimeoutException", "2xx", "4xx", "5xx"}

\* Body of HTTPClient.get / WebsiteHTTPClient.get: client.get, then
\* raise_for_status; every except clause re-raises.
HttpGetBody(net, i) ==
    CASE net = "2xx"             -> Ok(i)
      [] net \in {"4xx", "5xx"}  -> Exc("HTTPStatusError", i)
      [] OTHER                   -> Exc(net, i)

\* What a decorated synchronous test operation may do on one call.
RaisableTypes ==
    {"Exception", "ConnectionError", "TimeoutError", "ValueError", "TypeError"}

\* The possible results of the i-th execution of the body of operation o.
BodyOutcomes(o, i) ==
    CASE o = "external_call" ->
            {Ok(i)} \cup {Exc(t, i) : t \in RaisableTypes}
      [] o = "extract_response_body" ->
            {ExtractResponseBody(response, i)}
      [] OTHER ->
            {HttpGetBody(net, i) : net \in NetOutcomes}

\* self.api.get inside _make_api_request: a response with a status code,
\* or any exception.
ApiGetOutcomes ==
    {"200", "500"} \cup {"ConnectionError", "TimeoutError", "ValueError",
                         "PermissionError"}

-----------------------------------------------------------------------------
(* Initial states: one call of one operation under one configuration *)

SettingsChoices ==
    [RETRY_ATTEMPTS : 1 .. MaxAttempts,
     RETRY_WAIT_SECONDS : {1, RETRY_WAIT_SECONDS},
     RETRY_BACKOFF_MULTIPLIER : {RETRY_BACKOFF_MULTIPLIER_X2, 4},
     RETRY_MAX_WAIT_SECONDS : {3, RETRY_MAX_WAIT_SECONDS}]

\* Whether scrape's acquisition step returned or raised, and the result
\* object before scrape has built one.
NotAcquired == [kind |-> "none", msg |-> ""]
AcquiredOk == [kind |-> "ok", msg |-> ""]
AcquireError(msg) == [kind |-> "exception", msg |-> msg]

NoResult == [target |-> None, scraping_date |-> None, sections |-> << >>,
             error_message |-> None]

IdleScrape ==
    /\ svc = None
    /\ spc = "idle"
    /\ acquired = NotAcquired
    /\ task = << >>
    /\ gathered = << >>
    /\ scrape_result = NoResult
    /\ scrape_raised = None
    /\ page = {}
    /\ snapshot = {}

InitRetry ==
    /\ IdleScrape
    /\ op \in Ops
    /\ settings \in SettingsChoices
    /\ retry_count \in IF op = "_make_api_request"
                       THEN 0 .. MaxRetryCount
                       ELSE {DEFAULT_RETRY_COUNT}
    /\ response \in IF op = "extract_response_body"
                    THEN ResponseShapes
                    ELSE {"body_dict"}
    /\ pc = "call"
    /\ attempt_number = 1
    /\ outcomes = << >>
    /\ sleeps = << >>
    /\ last_error = NoOutcome
    /\ raised = NoOutcome
    /\ result = NoOutcome

-----------------------------------------------------------------------------
(* tenacity's Retrying loop around a decorated operation *)

\* One attempt: tenacity calls with_retry_logging's wrapper, which calls the
\* function.  The wrapper is a plain `def`, so tenacity uses its synchronous
\* Retrying also for an `async def`: the call then only creates a coroutine
\* object, which counts as a successful attempt and is returned to the caller.
Attempt ==
    /\ pc = "call"
    /\ op \in TenacityOps
    /\ IF IsAsync(op)
       THEN /\ pc' = "await"
            /\ result' = Coroutine
            /\ UNCHANGED <<outcomes, raised>>
       ELSE \E o \in BodyOutcomes(op, Len(outcomes) + 1) :
            /\ outcomes' = Append(outcomes, o)
            /\ IF o.kind = "ok"
               THEN /\ pc' = "returned"
                    /\ result' = WithRetryLoggingReturn(o)
                    /\ raised' = raised
               ELSE IF \/ ~RetryIfExceptionType(o.type, Decorator(op).types)
                       \/ StopAfterAttempt(attempt_number, Decorator(op).stop)
                    THEN \* reraise=True: the last attempt's own exception
                         /\ pc' = "raised"
                         /\ raised' = o
                         /\ result' = result
                    ELSE /\ pc' = "sleep"
                         /\ UNCHANGED <<raised, result>>
    /\ UNCHANGED <<op, settings, retry_count, response, attempt_number,
                   sleeps, last_error,
                   notRetryVars>>

\* The backoff sleep between two attempts.
BackoffSleep ==
    /\ pc = "sleep"
    /\ op \in TenacityOps
    /\ sleeps' = Append(sleeps, WaitExponential(attempt_number, Decorator(op)))
    /\ attempt_number' = attempt_number + 1
    /\ pc' = "call"
    /\ UNCHANGED <<op, settings, retry_count, response, outcomes,
                   last_error, raised, result,
                   notRetryVars>>

\* The caller awaits the coroutine tenacity handed back: the body of the
\* `async def` runs now, outside the retry loop.
AwaitCoroutine ==
    /\ pc = "await"
    /\ \E o \in BodyOutcomes(op, Len(outcomes) + 1) :
        /\ outcomes' = Append(outcomes, o)
        /\ IF o.kind = "ok"
           THEN /\ pc' = "returned"
                /\ result' = o
                /\ raised' = raised
           ELSE /\ pc' = "raised"
                /\ raised' = o
                /\ result' = NoOutcome
    /\ UNCHANGED <<op, settings, retry_count, response, attempt_number,
                   sleeps, last_error,
                   notRetryVars>>

-----------------------------------------------------------------------------
(* InstagramClientV2._make_api_request: for attempt in range(retry_count+1) *)

\* One iteration up to the sleep; attempt_number is the loop's attempt + 1.
ApiRequestAttempt ==
    /\ pc = "call"
    /\ op = "_make_api_request"
    /\ \E g \in ApiGetOutcomes :
        LET i == Len(outcomes) + 1
            o == IF g = "200" THEN Ok(i)
                 ELSE IF g = "500" THEN Exc("Exception", i)
                 ELSE Exc(g, i)
        IN  /\ outcomes' = Append(outcomes, o)
            /\ IF o.kind = "ok"
               THEN /\ pc' = "returned"
                    /\ result' = o
                    /\ UNCHANGED <<last_error, raised>>
               ELSE /\ last_error' = o
                    /\ result' = result
                    /\ IF attempt_number - 1 < retry_count
                       THEN /\ pc' = "sleep"
                            /\ raised' = raised
                       ELSE /\ pc' = "raised"
                            /\ raised' = o
    /\ UNCHANGED <<op, settings, retry_count, response, attempt_number, sleeps,
                   notRetryVars>>

\* wait_time = (attempt + 1) * 1.0, in half seconds like the other waits.
WaitTimeFixed(attempt) == 2
WaitTime(attempt) == 2 * (attempt + 1)

\* time.sleep(wait_time), then the next iteration.
ApiRequestSleep ==
    /\ pc = "sleep"
    /\ op = "_make_api_request"
    /\ sleeps' = Append(sleeps, WaitTime(attempt_number - 1))
    /\ attempt_number' = attempt_number + 1
    /\ pc' = "call"
    /\ UNCHANGED <<op, settings, retry_count, response, outcomes,
                   last_error, raised, result,
                   notRetryVars>>

-----------------------------------------------------------------------------

(* The scrape orchestrators: InstagramScraper.scrape, WebsiteScraper.scrape *)

MaxValue == 2

Services == {"instagram", "website"}

\* The analysis coroutines handed to asyncio.gather, in order.
INSTAGRAM_TASKS == 7
WEBSITE_TASKS == 5
NumTasks(s) == IF s = "instagram" THEN INSTAGRAM_TASKS ELSE WEBSITE_TASKS
Tasks(s) == 1 .. NumTasks(s)

\* str(e) of the exception an acquisition raises; it may be empty
\* (e.g. an httpx timeout raised without a message).
ErrorMessages == {"", "connection refused"}

Value(i, v) == [kind |-> "value", section |-> i, v |-> v]
Default(i) == [kind |-> "default", section |-> i, v |-> 0]
Raised(i) == [kind |-> "exception", section |-> i, v |-> 0]
Pending(i) == [kind |-> "pending", section |-> i, v |-> 0]

\* What one analysis coroutine hands to gather.  Instagram's _analyze_*
\* log and re-raise; the website's catch the exception themselves and
\* return the section model built from its field defaults.
TaskResult(s, i, body) ==
    IF body.kind = "exception" /\ s = "website" THEN Default(i) ELSE body

\* asyncio.gather(..., return_exceptions=True) completes when every
\* awaitable has finished, whether it returned or raised.
GatherFirstException(t) ==
    \/ \A i \in DOMAIN t : t[i] \in {"ok", "failed"}
    \/ \E i \in DOMAIN t : t[i] = "failed"
GatherDone(t) == \A i \in DOMAIN t : t[i] \in {"ok", "failed"}

\* results[i] if not isinstance(results[i], Exception) else <fallback>.
\* Instagram builds the fallback with explicit field values, the website
\* with the section model's defaults; both are the section's fixed default.
SectionNoFallback(r, i) == r
SectionOrDefault(r, i) == IF r.kind = "exception" THEN Default(i) ELSE r

\* The result models' default_factory for a section left out of the
\* constructor call.  The website's section models give every field a
\* default; Instagram's declare required fields (Field(...)), so the bare
\* constructor call raises a ValidationError.
DefaultFactory(s, i) ==
    IF s = "instagram" THEN Raised(i) ELSE Default(i)

\* pydantic validation of the result constructor's section arguments.
ValidSections(secs) == \A i \in DOMAIN secs : secs[i].kind # "exception"

\* The except branch of scrape: XxxScrapingResult(id, date, error_message).
ErrorResult(s, msg) ==
    LET secs == [i \in Tasks(s) |-> DefaultFactory(s, i)]
    IN  IF ValidSections(secs)
        THEN [kind |-> "returned",
              value |-> [target |-> s, scraping_date |-> "now",
                         sections |-> secs, error_message |-> msg]]
        ELSE [kind |-> "raised", value |-> NoResult]

\* The result constructor call at the end of the try branch; a
\* ValidationError there is caught by scrape's own except branch.
AssembledResult(s, g) ==
    LET secs == [i \in Tasks(s) |-> SectionOrDefault(g[i], i)]
    IN  IF ValidSections(secs)
        THEN [kind |-> "returned",
              value |-> [target |-> s, scraping_date |-> "now",
                         sections |-> secs, error_message |-> None]]
        ELSE ErrorResult(s, "validation error")

\* What the tasks share.  The website's parsed page is the set of element
\* kinds present in its BeautifulSoup tree; Instagram's profile_data is the
\* dictionary get_complete_profile_data returned, of which the tasks read
\* these keys.
PageElements == {"a", "script", "style"}
ProfileKeys == {"profile", "posts", "followers", "biography"}
Snapshots(s) ==
    IF s = "website" THEN SUBSET PageElements ELSE {ProfileKeys}

\* The position of _analyze_tone_of_voice among the website's tasks.
TONE_OF_VOICE_TASK == 4

\* for script in parser.soup(["script", "style"]): script.decompose()
Decompose(soup, names) == soup \ names

\* What the i-th analysis task leaves of the shared object when it runs to
\* its return statement.  The website's _analyze_tone_of_voice removes the
\* script and style elements from parser.soup after reading its text; every
\* other task only reads.
SnapshotAfter(s, i, snap) ==
    IF s = "website" /\ i = TONE_OF_VOICE_TASK
    THEN Decompose(snap, {"script", "style"})
    ELSE snap

IdleRetry ==
    /\ op = None
    /\ settings = [RETRY_ATTEMPTS |-> 0, RETRY_WAIT_SECONDS |-> 0,
                   RETRY_BACKOFF_MULTIPLIER |-> 0, RETRY_MAX_WAIT_SECONDS |-> 0]
    /\ retry_count = 0
    /\ response = None
    /\ pc = "idle"
    /\ attempt_number = 0
    /\ outcomes = << >>
    /\ sleeps = << >>
    /\ last_error = NoOutcome
    /\ raised = NoOutcome
    /\ result = NoOutcome

InitScrape ==
    /\ IdleRetry
    /\ svc \in Services
    /\ spc = "acquire"
    /\ acquired = NotAcquired
    /\ task = [i \in Tasks(svc) |-> "notstarted"]
    /\ gathered = [i \in Tasks(svc) |-> Pending(i)]
    /\ scrape_result = NoResult
    /\ scrape_raised = None
    /\ page = {}
    /\ snapshot = {}

\* The acquisition (get_complete_profile_data / http_client.get and the
\* parse of the page) returns; scrape reaches asyncio.gather.  The tasks
\* are all handed the one parser / profile_data object.
AcquireSucceeds ==
    /\ spc = "acquire"
    /\ acquired' = AcquiredOk
    /\ spc' = "gather"
    /\ \E p \in Snapshots(svc) :
        /\ page' = p
        /\ snapshot' = p
    /\ UNCHANGED <<svc, task, gathered, scrape_result, scrape_raised, notScrapeVars>>

\* The acquisition raises: control goes straight to the except branch,
\* which builds the error result.
AcquireFails ==
    /\ spc = "acquire"
    /\ \E msg \in ErrorMessages :
        LET r == ErrorResult(svc, msg)
        IN  /\ acquired' = AcquireError(msg)
            /\ spc' = r.kind
            /\ scrape_result' = IF r.kind = "returned" THEN r.value ELSE NoResult
            /\ scrape_raised' = IF r.kind = "raised" THEN "ValidationError" ELSE None
    /\ UNCHANGED <<svc, task, gathered, page, snapshot, notScrapeVars>>

\* gather schedules the i-th analysis coroutine.
StartTask(i) ==
    /\ spc = "gather"
    /\ task[i] = "notstarted"
    /\ task' = [task EXCEPT ![i] = "running"]
    /\ UNCHANGED <<svc, spc, acquired, gathered, scrape_result, scrape_raised,
                   page, snapshot, notScrapeVars>>

\* The i-th analysis coroutine finishes: it computed its section or raised.
FinishTask(i) ==
    /\ spc = "gather"
    /\ task[i] = "running"
    /\ \E body \in {Value(i, v) : v \in 1 .. MaxValue} \cup {Raised(i)} :
        /\ task' = [task EXCEPT ![i] =
                        IF body.kind = "exception" THEN "failed" ELSE "ok"]
        /\ gathered' = [gathered EXCEPT ![i] = TaskResult(svc, i, body)]
        /\ snapshot' = IF body.kind = "exception"
                        THEN snapshot
                        ELSE SnapshotAfter(svc, i, snapshot)
    /\ UNCHANGED <<svc, spc, acquired, scrape_result, scrape_raised, page,
                   notScrapeVars>>

\* gather returns; scrape substitutes the fallbacks, builds the result and
\* returns it.
Assemble ==
    /\ spc = "gather"
    /\ GatherDone(task)
    /\ LET r == AssembledResult(svc, gathered)
       IN  /\ spc' = r.kind
           /\ scrape_result' = IF r.kind = "returned" THEN r.value ELSE NoResult
           /\ scrape_raised' = IF r.kind = "raised" THEN "ValidationError" ELSE None
    /\ UNCHANGED <<svc, acquired, task, gathered, page, snapshot, notScrapeVars>>

-----------------------------------------------------------------------------
(* InstagramClientV2.get_complete_profile_data: the acquisition of one      *)
(* Instagram request.  A request is one call of _make_api_request; its      *)
(* response is identified by the request's position in `requests`.          *)

MaxPosts == 2

Request(scraper, caller, ok) == [scraper |-> scraper, caller |-> caller, ok |-> ok]

\* A to_thread worker: not started, running, returned or raised.
WorkerStates == {"idle", "pending", "ok", "failed"}

\* The value a worker handed back: the response it was computed from
\* (0 when there is none) and the number of post links it carries.
NoData == [from |-> 0, n |-> 0]
Data(r, n) == [from |-> r, n |-> n]

NoIgResult == [profile_from |-> 0, urls_from |-> 0, posts |-> << >>]

IdleIg ==
    /\ ipc = "idle"
    /\ max_posts = 0
    /\ preview = 0
    /\ requests = << >>
    /\ worker = [profile |-> "idle", urls |-> "idle"]
    /\ profile_data = NoData
    /\ post_urls = NoData
    /\ detailed_posts = << >>
    /\ ig_result = NoIgResult

\* get_complete_profile_data(username, max_posts) has created its two
\* to_thread workers and awaits the first gather.
InitIg ==
    /\ IdleRetry
    /\ IdleScrape
    /\ ipc = "gather_profile"
    /\ max_posts \in 1 .. MaxPosts
    /\ preview \in 0 .. MaxPosts + 1
    /\ requests = << >>
    /\ worker = [profile |-> "pending", urls |-> "pending"]
    /\ profile_data = NoData
    /\ post_urls = NoData
    /\ detailed_posts = << >>
    /\ ig_result = NoIgResult

\* get_profile_data in its worker thread: one 'instagram-profile' request;
\* any failure of the request or of the parse is logged and re-raised.
GetProfileData ==
    /\ ipc # "idle"
    /\ worker.profile = "pending"
    /\ \E ok \in BOOLEAN :
        /\ requests' = Append(requests,
                              Request("instagram-profile", "get_profile_data", ok))
        /\ worker' = [worker EXCEPT !.profile = IF ok THEN "ok" ELSE "failed"]
        /\ profile_data' = IF ok /\ ipc = "gather_profile"
                           THEN Data(Len(requests) + 1, preview)
                           ELSE profile_data
    /\ UNCHANGED <<ipc, max_posts, preview, post_urls, detailed_posts,
                   ig_result, notIgVars>>

\* get_profile_posts_urls in its worker thread: it calls get_profile_data
\* itself (a second 'instagram-profile' request) and returns the links of
\* that response's posts; on any failure it returns [].
GetProfilePostsUrls ==
    /\ ipc # "idle"
    /\ worker.urls = "pending"
    /\ \E ok \in BOOLEAN :
        /\ requests' = Append(requests,
                              Request("instagram-profile", "get_profile_posts_urls", ok))
        /\ worker' = [worker EXCEPT !.urls = "ok"]
        /\ post_urls' = IF ipc = "gather_profile"
                        THEN (IF ok THEN Data(Len(requests) + 1, preview)
                                    ELSE Data(0, 0))
                        ELSE post_urls
    /\ UNCHANGED <<ipc, max_posts, preview, profile_data, detailed_posts,
                   ig_result, notIgVars>>

\* post_urls[:max_posts] on a list of n URLs: how many are kept.
SliceAll(n, limit) == n
Slice(n, limit) == Min(n, limit)

\* await asyncio.gather(profile_task, posts_urls_task): it returns when
\* both workers have returned, and raises as soon as get_profile_data has
\* raised (the other worker thread keeps running).  Then
\* post_urls[:max_posts] and the creation of one worker per kept URL.
GatherProfile ==
    /\ ipc = "gather_profile"
    /\ IF worker.profile = "failed"
       THEN /\ ipc' = "raised"
            /\ UNCHANGED <<post_urls, detailed_posts>>
       ELSE /\ worker.profile = "ok"
            /\ worker.urls = "ok"
            /\ post_urls' = [post_urls EXCEPT !.n = Slice(post_urls.n, max_posts)]
            /\ detailed_posts' = [i \in 1 .. Slice(post_urls.n, max_posts) |-> "pending"]
            /\ ipc' = "gather_posts"
    /\ UNCHANGED <<max_posts, preview, requests, worker, profile_data,
                   ig_result, notIgVars>>

\* get_post_details for the i-th kept URL: one 'instagram-post' request;
\* on any failure it returns {}.
GetPostDetails(i) ==
    /\ ipc = "gather_posts"
    /\ detailed_posts[i] = "pending"
    /\ \E ok \in BOOLEAN :
        /\ requests' = Append(requests,
                              Request("instagram-post", "get_post_details", ok))
        /\ detailed_posts' = [detailed_posts EXCEPT ![i] =
                                  IF ok THEN "post" ELSE "empty"]
    /\ UNCHANGED <<ipc, max_posts, preview, worker, profile_data, post_urls,
                   ig_result, notIgVars>>

\* [post for post in detailed_posts if post]
RECURSIVE FilterEmpty(_)
FilterEmpty(posts) ==
    IF posts = << >> THEN << >>
    ELSE IF Head(posts) = "empty" THEN FilterEmpty(Tail(posts))
    ELSE <<Head(posts)>> \o FilterEmpty(Tail(posts))

\* After the second gather (skipped when no URL was kept): a further
\* 'instagram-profile' request, whose parsed response supplies every
\* profile field of the returned dictionary; the detailed posts are
\* attached to it.  A failure here, as anywhere in the try block, is
\* re-raised as ValueError.
BuildCompleteData ==
    /\ ipc = "gather_posts"
    /\ \A i \in DOMAIN detailed_posts : detailed_posts[i] # "pending"
    /\ \E ok \in BOOLEAN :
        /\ requests' = Append(requests,
                              Request("instagram-profile", "get_complete_profile_data", ok))
        /\ IF ok
           THEN /\ ipc' = "returned"
                /\ ig_result' = [profile_from |-> Len(requests) + 1,
                                 urls_from |-> post_urls.from,
                                 posts |-> FilterEmpty(detailed_posts)]
           ELSE /\ ipc' = "raised"
                /\ ig_result' = ig_result
    /\ UNCHANGED <<max_posts, preview, worker, profile_data, post_urls,
                   detailed_posts, notIgVars>>

-----------------------------------------------------------------------------
(* Python values and strings.  A str is a sequence of one-character         *)
(* strings; a value of a payload field is an int, a str, None, a float, or  *)
(* a dict with or without a 'value' key.                                    *)

PyInt(n) == [type |-> "int", vtype |-> "", int |-> n, str |-> << >>]
PyStr(s) == [type |-> "str", vtype |-> "", int |-> 0, str |-> s]
PyNone == [type |-> "NoneType", vtype |-> "", int |-> 0, str |-> << >>]
PyFloat == [type |-> "float", vtype |-> "", int |-> 0, str |-> << >>]
\* {'value': v} and {}
PyDict(v) == [type |-> "dict", vtype |-> v.type, int |-> v.int, str |-> v.str]
PyEmptyDict == [type |-> "dict", vtype |-> "missing", int |-> 0, str |-> << >>]
\* An exception leaving the call, in the place of a returned value.
PyRaise(t) == [type |-> t, vtype |-> "exception", int |-> 0, str |-> << >>]

Digits == <<"0", "1", "2", "3", "4", "5", "6", "7", "8", "9">>
DigitChars == {Digits[i] : i \in DOMAIN Digits}
DigitValue(c) == (CHOOSE i \in DOMAIN Digits : Digits[i] = c) - 1
Whitespace == {" "}

\* str.lower() on the characters the model's strings are made of.
LowerChar(c) ==
    CASE c = "K" -> "k"
      [] c = "M" -> "m"
      [] c = "N" -> "n"
      [] OTHER   -> c
Lower(s) == [i \in DOMAIN s |-> LowerChar(s[i])]

RECURSIVE LStrip(_)
LStrip(s) ==
    IF s # << >> /\ Head(s) \in Whitespace THEN LStrip(Tail(s)) ELSE s
RECURSIVE RStrip(_)
RStrip(s) ==
    IF s # << >> /\ s[Len(s)] \in Whitespace
    THEN RStrip(SubSeq(s, 1, Len(s) - 1))
    ELSE s
Strip(s) == LStrip(RStrip(s))

EndsWith(s, w) == Len(s) >= Len(w) /\ SubSeq(s, Len(s) - Len(w) + 1, Len(s)) = w
\* `w in s`
Contains(s, w) ==
    \E i \in 1 .. Len(s) - Len(w) + 1 : SubSeq(s, i, i + Len(w) - 1) = w
\* s.replace(a, b) for single characters, and s.replace(a, '')
Replace(s, a, b) == [i \in DOMAIN s |-> IF s[i] = a THEN b ELSE s[i]]
Remove(s, a) == SelectSeq(s, LAMBDA c : c # a)
\* re.sub(r'[^\d]', '', s)
OnlyDigits(s) == SelectSeq(s, LAMBDA c : c \in DigitChars)

\* int(s) of a non-empty string of digits
RECURSIVE IntOfDigits(_)
IntOfDigits(s) ==
    IF s = << >> THEN 0
    ELSE 10 * IntOfDigits(SubSeq(s, 1, Len(s) - 1)) + DigitValue(s[Len(s)])

\* str(n) of an integer n >= 0
RECURSIVE StrOfNat(_)
StrOfNat(n) ==
    IF n < 10 THEN <<Digits[n + 1]>>
    ELSE Append(StrOfNat(n \div 10), Digits[(n % 10) + 1])

\* re.search / re.findall(...)[0] of a character class with `+`: the first
\* maximal run of characters of the class.
FirstRun(s, class) ==
    IF \A i \in DOMAIN s : s[i] \notin class
    THEN [found |-> FALSE, run |-> << >>]
    ELSE LET first == CHOOSE i \in DOMAIN s :
                          /\ s[i] \in class
                          /\ \A j \in 1 .. i - 1 : s[j] \notin class
             last == CHOOSE k \in first .. Len(s) :
                          /\ \A j \in first .. k : s[j] \in class
                          /\ (k = Len(s) \/ s[k + 1] \notin class)
         IN  [found |-> TRUE, run |-> SubSeq(s, first, last)]

-----------------------------------------------------------------------------
(* IEEE 754 binary64 arithmetic, as far as parse_count_string uses it:      *)
(* float(literal), float * int and int(float), on non-negative values.      *)
(* A float is sig * 2^exp; sig is an unbounded natural number kept as a     *)
(* sequence of 15-bit limbs, most significant first.  Every rounding is to  *)
(* nearest, ties to even, at 53 bits.                                       *)

MANTISSA_BITS == 53
LIMB_BITS == 15
BASE == Pow(2, LIMB_BITS)
\* float(literal) divides with this many bits below the point before rounding.
GUARD_BITS == 75

RECURSIVE Trim(_)
Trim(b) == IF b # << >> /\ Head(b) = 0 THEN Trim(Tail(b)) ELSE b

BigOfNat(n) == Trim(<<n \div (BASE * BASE), (n \div BASE) % BASE, n % BASE>>)

RECURSIVE NatOfBig(_)
NatOfBig(b) ==
    IF b = << >> THEN 0
    ELSE BASE * NatOfBig(SubSeq(b, 1, Len(b) - 1)) + b[Len(b)]

Zeros(n) == [i \in 1 .. n |-> 0]

\* The number of bits of b.
BitLen(b) ==
    LET t == Trim(b)
    IN  IF t = << >> THEN 0
        ELSE (Len(t) - 1) * LIMB_BITS
             + (CHOOSE l \in 1 .. LIMB_BITS : Pow(2, l - 1) <= t[1] /\ t[1] < Pow(2, l))

IsOdd(b) == b # << >> /\ b[Len(b)] % 2 = 1

RECURSIVE BigInc(_)
BigInc(b) ==
    IF b = << >> THEN <<1>>
    ELSE IF b[Len(b)] < BASE - 1 THEN [b EXCEPT ![Len(b)] = @ + 1]
    ELSE Append(BigInc(SubSeq(b, 1, Len(b) - 1)), 0)

\* b * k + carry for 0 < k < BASE, by long multiplication.
RECURSIVE BigMulSmall(_, _, _)
BigMulSmall(b, k, carry) ==
    IF b = << >> THEN BigOfNat(carry)
    ELSE LET t == b[Len(b)] * k + carry
         IN  Append(BigMulSmall(SubSeq(b, 1, Len(b) - 1), k, t \div BASE), t % BASE)

\* b * k for k < BASE or k a multiple of 1000 (1,000,000 is 1000 * 1000).
RECURSIVE BigMul(_, _)
BigMul(b, k) ==
    IF k < BASE THEN BigMulSmall(b, k, 0)
    ELSE BigMulSmall(BigMul(b, k \div 1000), 1000, 0)

\* Quotient and remainder of (rem * BASE^Len(b) + b) by c, 0 < c <= BASE, by
\* long division.
RECURSIVE BigDivSmall(_, _, _)
BigDivSmall(b, c, rem) ==
    IF b = << >> THEN [q |-> << >>, r |-> rem]
    ELSE LET t == rem * BASE + Head(b)
             rest == BigDivSmall(Tail(b), c, t % c)
         IN  [q |-> <<t \div c>> \o rest.q, r |-> rest.r]

\* b \div 2^t, and whether the division was exact.
DivPow2(b, t) ==
    LET drop == Min(t \div LIMB_BITS, Len(b))
        kept == SubSeq(b, 1, Len(b) - drop)
        d == BigDivSmall(kept, Pow(2, t % LIMB_BITS), 0)
    IN  [q |-> Trim(d.q),
         exact |-> d.r = 0 /\ \A i \in Len(b) - drop + 1 .. Len(b) : b[i] = 0]

\* (b + a non-zero fraction when sticky) / 2^t rounded to an integer, to
\* nearest, ties to even.
RoundShift(b, t, sticky) ==
    IF t = 0 THEN Trim(b)
    ELSE LET d == DivPow2(b, t - 1)
             guard == IsOdd(d.q)
             q == DivPow2(d.q, 1).q
             up == guard /\ (sticky \/ ~d.exact \/ IsOdd(q))
         IN  IF up THEN BigInc(q) ELSE q

\* Round sig * 2^exp (plus a non-zero fraction of its last place when
\* sticky) to a 53-bit mantissa.
RoundToDouble(sig, exp, sticky) ==
    LET t == Max(0, BitLen(sig) - MANTISSA_BITS)
    IN  [sig |-> RoundShift(sig, t, sticky), exp |-> exp + t]

\* float("<digits>.<digits>"): the double nearest to D / 10^f.
FloatOfDecimal(D, f) ==
    IF D = 0 THEN [sig |-> << >>, exp |-> 0]
    ELSE LET d == BigDivSmall(BigOfNat(D) \o Zeros(GUARD_BITS \div LIMB_BITS),
                              Pow(10, f), 0)
         IN  RoundToDouble(Trim(d.q), -GUARD_BITS, d.r # 0)

\* x * k: the exact product, rounded once.
FloatTimesInt(x, k) == RoundToDouble(BigMul(x.sig, k), x.exp, FALSE)

\* int(x): truncation toward zero.
IntOfFloat(x) ==
    IF x.exp >= 0 THEN NatOfBig(x.sig) * Pow(2, x.exp)
    ELSE NatOfBig(DivPow2(x.sig, -x.exp).q)

\* float(s) for s made of digits and '.': a ValueError unless s has a digit
\* and at most one '.'.  D is the integer its digits spell, f the number of
\* digits after the point.
ParseFloat(s) ==
    LET points == {i \in DOMAIN s : s[i] = "."}
        point == IF points = {} THEN Len(s) + 1 ELSE CHOOSE i \in points : TRUE
    IN  IF OnlyDigits(s) = << >> \/ Cardinality(points) > 1
           \/ \E i \in DOMAIN s : s[i] \notin DigitChars \cup {"."}
        THEN [ok |-> FALSE, D |-> 0, f |-> 0]
        ELSE [ok |-> TRUE, D |-> IntOfDigits(OnlyDigits(s)),
              f |-> IF points = {} THEN 0 ELSE Len(s) - point]

-----------------------------------------------------------------------------
(* CrawlbaseParser: parse_count_string, parse_profile_data, parse_post_data *)

MILLION == 1000000
THOUSAND == 1000

\* The words parse_count_string strips from the end of the string:
\* followers?, following, posts?
CountWords ==
    {<<"f", "o", "l", "l", "o", "w", "e", "r">>,
     <<"f", "o", "l", "l", "o", "w", "e", "r", "s">>,
     <<"f", "o", "l", "l", "o", "w", "i", "n", "g">>,
     <<"p", "o", "s", "t">>,
     <<"p", "o", "s", "t", "s">>}

\* The indicator lists of the two multiplier branches: 'm', the Cyrillic
\* abbreviation of million and 'million'; 'k', the Cyrillic abbreviation
\* of thousand and 'thousand'.  A Cyrillic letter is written as its code
\* point.
MillionIndicators ==
    {<<"m">>, <<"U+043C", "U+043B", "U+043D">>,
     <<"m", "i", "l", "l", "i", "o", "n">>}
ThousandIndicators ==
    {<<"k">>, <<"U+0442", "U+044B", "U+0441">>,
     <<"t", "h", "o", "u", "s", "a", "n", "d">>}

\* any(indicator in clean_str for indicator in indicators)
ContainsAny(str, indicators) == \E w \in indicators : Contains(str, w)

\* re.sub(r'\s*(followers?|following|posts?)\s*$', '', str)
StripCountWord(str) ==
    LET t == RStrip(str)
        ws == {w \in CountWords : EndsWith(t, w)}
    IN  IF ws = {} THEN str
        ELSE LET w == CHOOSE v \in ws : \A u \in ws : Len(u) <= Len(v)
             IN  RStrip(SubSeq(t, 1, Len(t) - Len(w)))

\* The except branch: the first run of digits and commas of the string,
\* commas removed; 0 when there is none or it holds no digit.
CountFallback(str) ==
    LET numbers == FirstRun(str, DigitChars \cup {","})
    IN  IF numbers.found /\ Remove(numbers.run, ",") # << >>
        THEN PyInt(IntOfDigits(Remove(numbers.run, ",")))
        ELSE PyInt(0)

\* The branch of a multiplier marker: the first run of digits, separators
\* and blanks, ',' read as '.', converted with float() and multiplied.
\* Without such a run nothing is returned in the try block and the
\* function ends without a return statement: the caller receives None.
CountWithMultiplier(str, clean_str, k) ==
    LET num_match == FirstRun(clean_str, DigitChars \cup {",", "."} \cup Whitespace)
        num_part == Strip(Remove(Replace(num_match.run, ",", "."), " "))
        lit == ParseFloat(num_part)
    IN  IF ~num_match.found THEN PyNone
        ELSE IF ~lit.ok THEN CountFallback(str)
        ELSE PyInt(IntOfFloat(FloatTimesInt(FloatOfDecimal(lit.D, lit.f), k)))

\* parse_count_string on a str.
ParseCountStr(str) ==
    LET clean_str == StripCountWord(Strip(Lower(str)))
    IN  IF ContainsAny(clean_str, MillionIndicators)
        THEN CountWithMultiplier(str, clean_str, MILLION)
        ELSE IF ContainsAny(clean_str, ThousandIndicators)
        THEN CountWithMultiplier(str, clean_str, THOUSAND)
        ELSE LET clean_num == OnlyDigits(clean_str)
             IN  IF clean_num # << >> THEN PyInt(IntOfDigits(clean_num))
                 ELSE PyInt(0)

\* str(value) of a dict's 'value' that is not an int; the default is '0'.
StrOfValue(v) ==
    CASE v.vtype = "str"      -> v.str
      [] v.vtype = "NoneType" -> <<"N", "o", "n", "e">>
      [] OTHER                -> <<"0">>

\* CrawlbaseParser.parse_count_string
parse_count_string(v) ==
    CASE v.type = "int" -> v
      [] v.type = "dict" ->
            IF v.vtype = "int" THEN PyInt(v.int)
            ELSE ParseCountStr(StrOfValue(v))
      [] v.type = "str" -> ParseCountStr(v.str)
      [] OTHER -> PyInt(0)

\* `a > 0` in Python: a TypeError when a is None.
GreaterThanZero(a) ==
    IF a.type = "int" THEN (IF a.int > 0 THEN "True" ELSE "False") ELSE "TypeError"

\* A payload's count fields and a parser method's results; a field that a
\* method does not produce stays None.
NoRaw ==
    [followersCount |-> PyNone, followingCount |-> PyNone, postsCount |-> PyNone,
     likesCount |-> PyNone, repliesCount |-> PyNone]
NotParsed ==
    [count |-> PyNone, followers_count |-> PyNone, following_count |-> PyNone,
     posts_count |-> PyNone, likes_count |-> PyNone, comments_count |-> PyNone,
     exception |-> None]

\* CrawlbaseParser.parse_profile_data: the two counts are taken from each
\* other's field; `followers_count > 0 or posts_count > 0` is evaluated for
\* the log line before the InstagramProfile dataclass is built.
parse_profile_data(raw) ==
    LET small_number == parse_count_string(raw.followersCount)
        large_number == parse_count_string(raw.followingCount)
        posts_count == parse_count_string(raw.postsCount)
        followers_count == large_number
        following_count == small_number
        test == IF GreaterThanZero(followers_count) = "False"
                THEN GreaterThanZero(posts_count)
                ELSE GreaterThanZero(followers_count)
    IN  IF test = "TypeError"
        THEN [NotParsed EXCEPT !.exception = "TypeError"]
        ELSE [NotParsed EXCEPT !.followers_count = followers_count,
                               !.following_count = following_count,
                               !.posts_count = posts_count]

\* int(x) if isinstance(x, (int, str)) and str(x).isdigit() else 0
IntIfDigits(x) ==
    CASE x.type = "int" -> IF x.int >= 0 THEN x ELSE PyInt(0)
      [] x.type = "str" ->
            IF x.str # << >> /\ OnlyDigits(x.str) = x.str
            THEN PyInt(IntOfDigits(x.str))
            ELSE PyInt(0)
      [] OTHER -> PyInt(0)

\* CrawlbaseParser.parse_post_data, its two counters; a missing key reads 0.
parse_post_data(raw) ==
    [NotParsed EXCEPT !.likes_count = IntIfDigits(raw.likesCount),
                      !.comments_count = IntIfDigits(raw.repliesCount)]

-----------------------------------------------------------------------------
(* One call of a CrawlbaseParser method on one input *)

MaxMantissa == 40
MaxInt == 2
MaxCount == 33000

\* n/1000 written with one decimal digit and 'K': the tenths of a thousand
\* nearest to n.
FormatK(n) ==
    LET tenths == (n + 50) \div 100
    IN  StrOfNat(tenths \div 10) \o <<".", Digits[(tenths % 10) + 1], "K">>

\* "<a><sep><b>": a mantissa with one digit after the separator.
Mantissa(a, sep, b) == StrOfNat(a) \o <<sep, Digits[b + 1]>>

\* Count strings as the backend writes them: a mantissa, a multiplier
\* marker and possibly the counted word.
SuffixedStrings ==
    {Mantissa(a, sep, b) \o <<m>> \o w :
        a \in 0 .. MaxMantissa, sep \in {".", ","}, b \in 0 .. 9,
        m \in {"K", "M", "k", "m"},
        w \in {<< >>, <<" ", "f", "o", "l", "l", "o", "w", "e", "r", "s">>}}

\* Further strings: plain numbers, separators, markers without digits,
\* malformed numbers.
OtherStrings ==
    {<< >>,
     <<"k">>,
     <<"m">>,
     <<"1", "2">>,
     <<"1", ",", "2", "6", "3">>,
     <<"1", ",", "2", "6", "3", " ", "p", "o", "s", "t", "s">>,
     <<"-", "5">>,
     <<"1", ".", "5">>,
     <<"1", ".", "2", ".", "3", "k">>,
     <<"1", ",", "2", "3", "4", ".", "5", "k">>,
     <<",", "k">>,
     <<"5", " ", "k">>,
     <<"p", "o", "s", "t", "s">>,
     <<"1", "0", " ", "f", "o", "l", "l", "o", "w", "i", "n", "g">>,
     <<"2", " ", "t", "h", "o", "u", "s", "a", "n", "d">>,
     <<"3", "4", ".", "2", "M", " ", "f", "o", "l", "l", "o", "w", "e", "r", "s">>,
     <<" ", "7", " ">>,
     <<"1", "m">>,
     <<"M", " ", "f", "o", "l", "l", "o", "w", "e", "r", "s">>}

PlainValues ==
    {PyInt(n) : n \in -MaxInt .. MaxInt} \cup {PyNone, PyFloat}

\* The values parse_count_string is called on.
CountInputs ==
    PlainValues
    \cup {PyStr(str) : str \in SuffixedStrings \cup OtherStrings}
    \cup {PyEmptyDict}
    \cup {PyDict(v) : v \in {PyInt(n) : n \in -MaxInt .. MaxInt} \cup {PyNone}}
    \cup {PyDict(PyStr(str)) : str \in OtherStrings}

\* The values of the count fields of the profile and post payloads.
ProfileFieldInputs ==
    {PyInt(-1), PyInt(5), PyEmptyDict, PyStr(<<"k">>),
     PyDict(PyStr(<<"3", "4", ".", "2", "M">>)),
     PyDict(PyStr(<<"1", ",", "2", "6", "3">>))}
PostFieldInputs ==
    {PyInt(-1), PyInt(0), PyInt(7), PyNone, PyStr(<<"1", "2">>),
     PyStr(<<"3", "4", ".", "2", "K">>)}

IdleParse ==
    /\ npc = "idle"
    /\ nfun = None
    /\ count_str = PyNone
    /\ formatted = -1
    /\ raw_data = NoRaw
    /\ parsed = NotParsed

InitParse ==
    /\ IdleRetry
    /\ IdleScrape
    /\ IdleIg
    /\ npc = "call"
    /\ parsed = NotParsed
    /\ \/ /\ nfun = "parse_count_string"
          /\ count_str \in CountInputs
          /\ formatted = -1
          /\ raw_data = NoRaw
       \/ /\ nfun = "parse_count_string"
          /\ formatted \in 0 .. MaxCount
          /\ count_str = PyStr(FormatK(formatted))
          /\ raw_data = NoRaw
       \/ /\ nfun = "parse_profile_data"
          /\ count_str = PyNone
          /\ formatted = -1
          /\ \E a, b, c \in ProfileFieldInputs :
                raw_data = [NoRaw EXCEPT !.followersCount = a,
                                         !.followingCount = b,
                                         !.postsCount = c]
       \/ /\ nfun = "parse_post_data"
          /\ count_str = PyNone
          /\ formatted = -1
          /\ \E a, b \in PostFieldInputs :
                raw_data = [NoRaw EXCEPT !.likesCount = a, !.repliesCount = b]

\* parse_count_string(count_str) runs and returns.
ParseCountString ==
    /\ npc = "call"
    /\ nfun = "parse_count_string"
    /\ parsed' = [NotParsed EXCEPT !.count = parse_count_string(count_str)]
    /\ npc' = "returned"
    /\ UNCHANGED <<nfun, count_str, formatted, raw_data, notParseVars>>

\* parse_profile_data(raw_data) runs: it returns the profile or raises.
ParseProfileData ==
    /\ npc = "call"
    /\ nfun = "parse_profile_data"
    /\ parsed' = parse_profile_data(raw_data)
    /\ npc' = IF parsed'.exception = None THEN "returned" ELSE "raised"
    /\ UNCHANGED <<nfun, count_str, formatted, raw_data, notParseVars>>

\* parse_post_data(raw_data) runs and returns.
ParsePostData ==
    /\ npc = "call"
    /\ nfun = "parse_post_data"
    /\ parsed' = parse_post_data(raw_data)
    /\ npc' = "returned"
    /\ UNCHANGED <<nfun, count_str, formatted, raw_data, notParseVars>>

-----------------------------------------------------------------------------
(* POST /scrape/youtube: scrape_youtube, YouTubeScraper *)

MaxElements == 2
MaxLinks == 12
VIDEO_CAP == 10

\* An exception object: its class and the message it was built with.
NoExc == [type |-> None, msg |-> ""]
Error(t, m) == [type |-> t, msg |-> m]

\* selenium.common.exceptions
SeleniumExceptions ==
    {"selenium.WebDriverException", "selenium.TimeoutException",
     "selenium.NoSuchElementException"}

\* str(e): WebDriverException.__str__ prefixes the message, any other
\* exception gives its message.
StrOfException(e) ==
    IF e.type \in SeleniumExceptions
    THEN "Message: " \o e.msg \o "\n"
    ELSE e.msg

\* Truth value of an Optional[str].
Truthy(x) == x # None /\ x # ""

\* retry_selenium_operations: the pre-configured decorator for browser
\* operations, built like its siblings by create_retry_decorator.
retry_selenium_operations ==
    create_retry_decorator(SeleniumExceptions, None, None, None, None)

\* request.url: empty, blank, a channel URL, and one with blanks around it.
ChannelUrl == <<"/", "@", "c">>
Urls == {<< >>, <<" ">>, ChannelUrl, <<" ">> \o ChannelUrl \o <<" ">>}

\* href attributes of the page's anchors.  An anchor without href (None)
\* and one with an empty href are the same to `if href`.
WatchMarker == <<"w", "a", "t", "c", "h", "?", "v", "=">>
Watch(v) == <<"/">> \o WatchMarker \o <<v>>
About == <<"/", "a", "b", "o", "u", "t">>
Hrefs == {<< >>, About, Watch("1"), Watch("2")}

\* The video ids of a page with many videos, in page order.
VideoIds ==
    <<"1", "2", "3", "4", "5", "6", "7", "8", "9", "a", "b", "c", "d", "e", "f", "g">>

InsertAt(q, p, x) == SubSeq(q, 1, p) \o <<x>> \o SubSeq(q, p + 1, Len(q))

\* Anchor lists of pages with about VIDEO_CAP videos and more: the links
\* of n distinct videos, alone or with one more anchor after the p-th (an
\* anchor without href, a link that is no video, a second link to the first
\* video or to the p-th).
LongElementLists ==
    UNION { LET base == [i \in 1 .. n |-> Watch(VideoIds[i])]
            IN  {base} \cup
                {InsertAt(base, p, x) :
                    p \in 1 .. n,
                    x \in {<< >>, About, Watch(VideoIds[1])}} \cup
                {InsertAt(base, p, Watch(VideoIds[p])) : p \in 1 .. n} :
            n \in (MaxLinks - 3) .. MaxLinks }

RECURSIVE SeqsUpTo(_, _)
SeqsUpTo(S, n) ==
    IF n = 0 THEN {<< >>}
    ELSE LET shorter == SeqsUpTo(S, n - 1)
         IN  shorter \cup {Append(q, x) : q \in shorter, x \in S}

TextFields ==
    {"channel_name", "channel_handle", "subscribers", "videos", "description"}

\* What the channel page shows.
Channels ==
    {[channel_name |-> "Rick Astley", channel_handle |-> "@RickAstley",
      subscribers |-> "4.2M subscribers", videos |-> "312 videos",
      description |-> "Official channel", elements |-> e] :
        e \in SeqsUpTo(Hrefs, MaxElements) \cup LongElementLists}

NoChannel ==
    [channel_name |-> None, channel_handle |-> None, subscribers |-> None,
     videos |-> None, description |-> None, elements |-> << >>]

NoTexts ==
    [channel_name |-> None, channel_handle |-> None, subscribers |-> None,
     videos |-> None, description |-> None]

NoYtResult ==
    [channel_name |-> None, channel_handle |-> None, subscribers |-> None,
     videos |-> None, description |-> None, first_10_videos |-> << >>,
     error_message |-> None]

NoResponse == [status |-> 0, detail |-> ""]
HTTPException(status_code, detail) == [status |-> status_code, detail |-> detail]
HTTP_200_OK == [status |-> 200, detail |-> ""]

\* scrape_youtube's `except Exception as e`
InternalServerError(e) ==
    HTTPException(500, "Internal server error: " \o StrOfException(e))

\* The steps of scrape's body, in order.
Steps ==
    <<"get_home", "reject_cookies", "get_channel", "channel_name",
      "channel_handle", "subscribers", "videos", "description", "video_links">>

\* How a step can fail: driver.get, WebDriverWait(...).until(...).text,
\* driver.find_elements; inside reject_cookies, the wait or the click.
StepFailures(s) ==
    CASE s \in {"get_home", "get_channel"} ->
            {Error("selenium.WebDriverException", "net::ERR_NAME_NOT_RESOLVED"),
             Error("selenium.TimeoutException", "timeout")}
      [] s = "reject_cookies" ->
            {Error("selenium.TimeoutException", ""),
             Error("selenium.WebDriverException", "javascript error")}
      [] s \in TextFields ->
            {Error("selenium.TimeoutException", ""),
             Error("selenium.NoSuchElementException", "Element not found")}
      [] OTHER ->
            {Error("selenium.WebDriverException", "invalid session id")}

StepOutcomes(s) == {NoExc} \cup StepFailures(s)

\* reject_cookies: `except Exception` logs a warning; nothing is raised.
RejectCookiesReraises(e) == e
RejectCookiesExcept(e) == NoExc

\* reject_cookies, given what the wait and the click did: how the dismissal
\* ended and what the call raises.
reject_cookies(o) ==
    [cookies |-> IF o = NoExc THEN "rejected" ELSE "ignored",
     raises  |-> IF o = NoExc THEN NoExc ELSE RejectCookiesExcept(o)]

\* What a step of the body raises, seen from scrape's try block.
StepRaises(s, o) == IF s = "reject_cookies" THEN reject_cookies(o).raises ELSE o

InSeq(x, q) == \E i \in DOMAIN q : q[i] = x

\* `if len(video_links) == 10: break`
CapNeverReached(video_links) == FALSE
CapReached(video_links) == Len(video_links) = VIDEO_CAP

\* The loop over the anchors: keep an href that holds "watch?v=" and is not
\* kept yet; stop once VIDEO_CAP are kept.
RECURSIVE CollectVideoLinks(_, _)
CollectVideoLinks(elements, video_links) ==
    IF elements = << >> THEN video_links
    ELSE LET href == Head(elements)
             links == IF /\ href # << >>
                         /\ Contains(href, WatchMarker)
                         /\ ~InSeq(href, video_links)
                      THEN Append(video_links, href)
                      ELSE video_links
         IN  IF CapReached(links)
             THEN links
             ELSE CollectVideoLinks(Tail(elements), links)

\* The result of scrape's try block when every step succeeded.
ScrapeReturn(t, elements) ==
    [channel_name |-> t.channel_name, channel_handle |-> t.channel_handle,
     subscribers |-> t.subscribers, videos |-> t.videos,
     description |-> t.description,
     first_10_videos |-> CollectVideoLinks(elements, << >>),
     error_message |-> None]

\* scrape's `except Exception as e`: what the handler does with e.
ScrapeExceptReraises(e) == [kind |-> "raise", value |-> NoYtResult]
ScrapeExcept(e) ==
    [kind |-> "return",
     value |-> [channel_name |-> "", channel_handle |-> "", subscribers |-> "",
                videos |-> "", description |-> "", first_10_videos |-> << >>,
                error_message |-> StrOfException(e)]]

\* What driver.quit() may do.
DriverQuitOutcomes ==
    {NoExc, Error("selenium.WebDriverException", "invalid session id"),
     Error("Exception", "Quit failed")}

\* quit's `except Exception as e`: a warning is logged.
QuitExceptReraises(e) == "raise"
QuitExcept(e) == "return"

\* What webdriver.Chrome(...) may do in YouTubeScraper.__init__.
ChromeOutcomes ==
    {NoExc, Error("selenium.WebDriverException", "session not created")}

YtSettings ==
    {c \in SettingsChoices :
        /\ c.RETRY_WAIT_SECONDS = RETRY_WAIT_SECONDS
        /\ c.RETRY_BACKOFF_MULTIPLIER = RETRY_BACKOFF_MULTIPLIER_X2
        /\ c.RETRY_MAX_WAIT_SECONDS = RETRY_MAX_WAIT_SECONDS}

\* settings.API_KEY: the application does not start with an empty one.
API_KEY == "test-api-key-123"

\* The X-API-Key header of a request: none, empty, another key, the key.
HeaderValues == {None, "", "invalid-api-key", API_KEY}

IdleYt ==
    /\ ypc = "idle"
    /\ x_api_key = None
    /\ url = << >>
    /\ channel = NoChannel
    /\ driver = "none"
    /\ step = 0
    /\ cookies = None
    /\ texts = NoTexts
    /\ caught = NoExc
    /\ sequences = 0
    /\ yt_attempts = 0
    /\ quits = 0
    /\ quit_escaped = NoExc
    /\ yt_result = NoYtResult
    /\ yt_raised = NoExc
    /\ yt_response = NoResponse

\* The WebsiteAnalysisResult before analyze_website has built one.
NoAnalysis == [analysis_success |-> FALSE, pages_analyzed |-> 0,
               errors_encountered |-> << >>]

IdleApi ==
    /\ rpc = "idle"
    /\ endpoint = None
    /\ headers = None
    /\ username = << >>
    /\ api_response = NoResponse
    /\ analysis = NoAnalysis

\* A request for POST /scrape/youtube has arrived.
InitYt ==
    /\ IdleApi
    /\ IdleScrape
    /\ IdleIg
    /\ IdleParse
    /\ op = None
    /\ settings \in YtSettings
    /\ retry_count = 0
    /\ response = None
    /\ pc = "idle"
    /\ attempt_number = 0
    /\ outcomes = << >>
    /\ sleeps = << >>
    /\ last_error = NoOutcome
    /\ raised = NoOutcome
    /\ result = NoOutcome
    /\ ypc = "verify_api_key"
    /\ x_api_key \in HeaderValues
    /\ url \in Urls
    /\ channel \in Channels
    /\ driver = "none"
    /\ step = 0
    /\ cookies = None
    /\ texts = NoTexts
    /\ caught = NoExc
    /\ sequences = 0
    /\ yt_attempts = 0
    /\ quits = 0
    /\ quit_escaped = NoExc
    /\ yt_result = NoYtResult
    /\ yt_raised = NoExc
    /\ yt_response = NoResponse

\* The framework's answer when a required parameter of a dependency is
\* missing from the request: the dependency is not called.
RequestValidationError == HTTPException(422, "Field required")

\* The route's dependency verify_api_key(x_api_key): the header parameter
\* is declared without a default, so the framework requires it; an empty
\* or a different key is answered with 401.
VerifyApiKey ==
    /\ ypc = "verify_api_key"
    /\ IF x_api_key = None
       THEN /\ yt_response' = RequestValidationError
            /\ ypc' = "responded"
       ELSE IF ~Truthy(x_api_key)
       THEN /\ yt_response' = HTTPException(401, "Missing API Key")
            /\ ypc' = "responded"
       ELSE IF x_api_key # API_KEY
       THEN /\ yt_response' = HTTPException(401, "Invalid API Key")
            /\ ypc' = "responded"
       ELSE /\ yt_response' = yt_response
            /\ ypc' = "request"
    /\ UNCHANGED <<x_api_key, url, channel, driver, step, cookies, texts, caught,
                   sequences, yt_attempts, quits, quit_escaped, yt_result,
                   yt_raised, notYtVars>>

\* target_url = request.url.strip(); an empty one is answered with 400.
ValidateUrl ==
    /\ ypc = "request"
    /\ IF Strip(url) = << >>
       THEN /\ yt_response' = HTTPException(400, "YouTube URL cannot be empty")
            /\ ypc' = "responded"
       ELSE /\ yt_response' = yt_response
            /\ ypc' = "construct"
    /\ UNCHANGED <<x_api_key, url, channel, driver, step, cookies, texts, caught, sequences,
                   yt_attempts, quits, quit_escaped, yt_result, yt_raised,
                   notYtVars>>

\* scraper = YouTubeScraper(headless=True): the browser session is created,
\* or __init__ re-raises and the route's `except Exception` answers 500.
CreateScraper ==
    /\ ypc = "construct"
    /\ \E o \in ChromeOutcomes :
        IF o = NoExc
        THEN /\ driver' = "open"
             /\ ypc' = "call"
             /\ yt_response' = yt_response
        ELSE /\ driver' = driver
             /\ ypc' = "responded"
             /\ yt_response' = InternalServerError(o)
    /\ UNCHANGED <<x_api_key, url, channel, step, cookies, texts, caught, sequences,
                   yt_attempts, quits, quit_escaped, yt_result, yt_raised,
                   notYtVars>>

\* await scraper.scrape(target_url): the decorator's attempt calls
\* with_retry_logging's wrapper, which calls the `async def`; that only
\* creates the coroutine, so the attempt succeeds and the decorator hands
\* the coroutine back.  The route awaits it: the body starts now.
CallScrape ==
    /\ ypc = "call"
    /\ yt_attempts' = yt_attempts + 1
    /\ sequences' = sequences + 1
    /\ step' = 1
    /\ ypc' = "scrape"
    /\ UNCHANGED <<x_api_key, url, channel, driver, cookies, texts, caught, quits,
                   quit_escaped, yt_result, yt_raised, yt_response,
                   notYtVars>>

\* One step of scrape's body.  A failure inside reject_cookies is swallowed
\* there; any other failure goes to scrape's except clause.  After the last
\* step the result is built and returned.  An exception leaving scrape
\* would skip scraper.quit() and be answered by the route with 500.
ScrapeStep ==
    /\ ypc = "scrape"
    /\ \E o \in StepOutcomes(Steps[step]) :
        /\ cookies' = IF Steps[step] = "reject_cookies"
                      THEN reject_cookies(o).cookies
                      ELSE cookies
        /\ IF StepRaises(Steps[step], o) = NoExc
           THEN /\ texts' = IF Steps[step] \in TextFields
                            THEN [texts EXCEPT ![Steps[step]] = channel[Steps[step]]]
                            ELSE texts
                /\ IF step = Len(Steps)
                   THEN /\ yt_result' = ScrapeReturn(texts, channel.elements)
                        /\ ypc' = "quit"
                        /\ step' = step
                   ELSE /\ yt_result' = yt_result
                        /\ ypc' = ypc
                        /\ step' = step + 1
                /\ UNCHANGED <<caught, yt_raised, yt_response>>
           ELSE /\ caught' = StepRaises(Steps[step], o)
                /\ IF ScrapeExcept(caught').kind = "return"
                   THEN /\ yt_result' = ScrapeExcept(caught').value
                        /\ ypc' = "quit"
                        /\ UNCHANGED <<yt_raised, yt_response>>
                   ELSE /\ yt_raised' = caught'
                        /\ yt_response' = InternalServerError(caught')
                        /\ ypc' = "responded"
                        /\ yt_result' = yt_result
                /\ UNCHANGED <<step, texts>>
    /\ UNCHANGED <<x_api_key, url, channel, driver, sequences, yt_attempts, quits,
                   quit_escaped, notYtVars>>

\* scraper.quit(): self.driver.quit() inside try / except Exception.
Quit ==
    /\ ypc = "quit"
    /\ quits' = quits + 1
    /\ \E o \in DriverQuitOutcomes :
        /\ driver' = IF o = NoExc THEN "closed" ELSE "quit_failed"
        /\ IF o = NoExc \/ QuitExcept(o) = "return"
           THEN /\ ypc' = "check"
                /\ UNCHANGED <<quit_escaped, yt_response>>
           ELSE /\ quit_escaped' = o
                /\ yt_response' = InternalServerError(o)
                /\ ypc' = "responded"
    /\ UNCHANGED <<x_api_key, url, channel, step, cookies, texts, caught, sequences,
                   yt_attempts, yt_result, yt_raised, notYtVars>>

\* `if result.error_message:` 422, otherwise the result with 200.
Respond ==
    /\ ypc = "check"
    /\ yt_response' =
        IF Truthy(yt_result.error_message)
        THEN HTTPException(422, "Failed to scrape YouTube: " \o yt_result.error_message)
        ELSE HTTP_200_OK
    /\ ypc' = "responded"
    /\ UNCHANGED <<x_api_key, url, channel, driver, step, cookies, texts, caught, sequences,
                   yt_attempts, quits, quit_escaped, yt_result, yt_raised,
                   notYtVars>>

-----------------------------------------------------------------------------
(* POST /scrape/instagram and POST /scrape/website *)

\* s.lstrip("@")
RECURSIVE LStripAt(_)
LStripAt(s) == IF s # << >> /\ Head(s) = "@" THEN LStripAt(Tail(s)) ELSE s

\* str.isalnum() on the characters the model's strings are made of.
AlnumChars == {"n", "a", "s"} \cup DigitChars
IsAlnum(s) == s # << >> /\ \A i \in DOMAIN s : s[i] \in AlnumChars

\* request.username values.
Usernames ==
    {<< >>, <<" ">>, <<"@">>, <<"@", " ">>, <<"_">>, <<"n", " ", "a">>,
     <<"n", "!">>, <<"n", "@">>, <<"n", "a", "s", "a">>,
     <<" ", "@", "n", "_", "1", ".", " ">>, <<"@", "@", "n">>}

\* The requests the two routes are given: the endpoint, the X-API-Key
\* header and the username.  The website's url is an HttpUrl, which the
\* framework has validated before the handler runs.
ApiRequests ==
    {[endpoint |-> "instagram", headers |-> API_KEY, username |-> u] :
        u \in Usernames}
    \cup {[endpoint |-> "instagram", headers |-> None,
           username |-> <<"n", "a", "s", "a">>]}
    \cup {[endpoint |-> "website", headers |-> h, username |-> << >>] :
            h \in {None, API_KEY}}

\* Lines 35-46 of scrape_instagram: the detail of the 400 answer, or None.
UsernameErrorOnlyEmpty(raw) ==
    IF LStripAt(Strip(raw)) = << >> THEN "Username cannot be empty" ELSE None
UsernameError(raw) ==
    LET name == LStripAt(Strip(raw))
    IN  IF name = << >> THEN "Username cannot be empty"
        ELSE IF ~IsAlnum(Remove(Remove(name, "_"), "."))
             THEN "Invalid Instagram username format"
             ELSE None

\* The head of the 422 answer's detail.
FailedToScrape(e) ==
    IF e = "instagram"
    THEN "Failed to scrape Instagram profile: "
    ELSE "Failed to scrape website: "

\* A request has reached the route's handler; no dependency runs before it.
InitApi ==
    /\ IdleRetry
    /\ IdleScrape
    /\ IdleIg
    /\ IdleParse
    /\ IdleYt
    /\ rpc = "request"
    /\ \E r \in ApiRequests :
        /\ endpoint = r.endpoint
        /\ headers = r.headers
        /\ username = r.username
    /\ api_response = NoResponse
    /\ analysis = NoAnalysis

\* The handler up to `await scraper.scrape(...)`: scrape_instagram
\* validates the username and answers 400, or the scraper is constructed
\* and its scrape is entered.
HandleRequest ==
    /\ rpc = "request"
    /\ IF endpoint = "instagram" /\ UsernameError(username) # None
       THEN /\ api_response' = HTTPException(400, UsernameError(username))
            /\ rpc' = "responded"
            /\ UNCHANGED scrapeVars
       ELSE /\ rpc' = "scrape"
            /\ api_response' = api_response
            /\ svc' = endpoint
            /\ spc' = "acquire"
            /\ task' = [i \in Tasks(endpoint) |-> "notstarted"]
            /\ gathered' = [i \in Tasks(endpoint) |-> Pending(i)]
            /\ UNCHANGED <<acquired, scrape_result, scrape_raised, page, snapshot>>
    /\ UNCHANGED <<endpoint, headers, username, analysis, retryVars, igVars, parseVars, ytVars, sessionVars>>

\* scrape has returned or raised: `if result.error_message:` 422, the
\* result with 200, and 500 from `except Exception`.
RouteRespond ==
    /\ rpc = "scrape"
    /\ spc \in {"returned", "raised"}
    /\ api_response' =
        IF spc = "raised"
        THEN HTTPException(500, "Internal server error: " \o scrape_raised)
        ELSE IF Truthy(scrape_result.error_message)
        THEN HTTPException(422, FailedToScrape(endpoint) \o scrape_result.error_message)
        ELSE HTTP_200_OK
    /\ rpc' = "responded"
    /\ UNCHANGED <<endpoint, headers, username, analysis, retryVars, scrapeVars,
                   igVars, parseVars, ytVars, sessionVars>>

-----------------------------------------------------------------------------
(* The website-analyzer service: POST /analyze *)

\* str(e) of the exception a failed page fetch raises.
FetchErrorMessage(t) ==
    CASE t = "ConnectError"     -> "All connection attempts failed"
      [] t = "TimeoutException" -> "timed out"
      [] OTHER                  -> "Client error for url"

\* analyze_website's two return statements: the assembled result, and the
\* failed result its `except Exception` builds.
AnalysisSucceeded ==
    [analysis_success |-> TRUE, pages_analyzed |-> 1,
     errors_encountered |-> << >>]
AnalysisFailed(e) ==
    [analysis_success |-> FALSE, pages_analyzed |-> 0,
     errors_encountered |-> <<e>>]

\* An authenticated or unauthenticated request for POST /analyze has
\* arrived; the service's settings are any configuration.
InitAnalyze ==
    /\ IdleScrape
    /\ IdleIg
    /\ IdleParse
    /\ IdleYt
    /\ op = "WebsiteHTTPClient.get"
    /\ settings \in SettingsChoices
    /\ retry_count = DEFAULT_RETRY_COUNT
    /\ response = "body_dict"
    /\ pc = "idle"
    /\ attempt_number = 1
    /\ outcomes = << >>
    /\ sleeps = << >>
    /\ last_error = NoOutcome
    /\ raised = NoOutcome
    /\ result = NoOutcome
    /\ rpc = "verify_api_key"
    /\ endpoint = "analyze"
    /\ headers \in HeaderValues
    /\ username = << >>
    /\ api_response = NoResponse
    /\ analysis = NoAnalysis

\* The route's dependency verify_api_key(api_key = Header(alias=
\* "X-API-Key")): the header is required; an empty or a different key is
\* answered with 401.
AnalyzerVerifyApiKey ==
    /\ rpc = "verify_api_key"
    /\ IF headers = None
       THEN /\ api_response' = RequestValidationError
            /\ rpc' = "responded"
       ELSE IF ~Truthy(headers)
       THEN /\ api_response' = HTTPException(401, "Missing API key. Include X-API-Key header in your request.")
            /\ rpc' = "responded"
       ELSE IF headers # API_KEY
       THEN /\ api_response' = HTTPException(401, "Invalid API key. Please check your X-API-Key header.")
            /\ rpc' = "responded"
       ELSE /\ api_response' = api_response
            /\ rpc' = "analyze"
    /\ UNCHANGED <<endpoint, headers, username, analysis, retryVars, scrapeVars,
                   igVars, parseVars, ytVars, sessionVars>>

\* `result = await analyzer.analyze_website(request)` up to the page
\* fetch: analyze_website is an `async def` under retry_external_calls and
\* with_retry_logging, so the decorated call hands back its coroutine and
\* the await runs the body once, which calls self.http_client.get(url).
AnalyzeWebsite ==
    /\ rpc = "analyze"
    /\ pc = "idle"
    /\ pc' = "call"
    /\ rpc' = "fetch"
    /\ UNCHANGED <<op, settings, retry_count, response, attempt_number, outcomes,
                   sleeps, last_error, raised, result,
                   endpoint, headers, username, api_response, analysis,
                   scrapeVars, igVars, parseVars, ytVars, sessionVars>>

\* The page fetch has returned or raised.  analyze_website returns the
\* assembled result, or its `except Exception` returns the failed result;
\* the route returns whichever it was given (analyze_website raises
\* nothing, so the route's own `except Exception` has nothing to catch).
AnalyzeRespond ==
    /\ rpc = "fetch"
    /\ pc \in {"returned", "raised"}
    /\ analysis' =
        IF pc = "returned"
        THEN AnalysisSucceeded
        ELSE AnalysisFailed(FetchErrorMessage(raised.type))
    /\ api_response' = HTTP_200_OK
    /\ rpc' = "responded"
    /\ UNCHANGED <<endpoint, headers, username, retryVars, scrapeVars,
                   igVars, parseVars, ytVars, sessionVars>>

-----------------------------------------------------------------------------
(* Concurrent POST /scrape/youtube requests and their browser sessions *)

MaxRequests == 2

\* A handler that has passed verify_api_key and the url check, before
\* `scraper = YouTubeScraper(headless=True)`; scraper is the index of its
\* session in browsers (0: none).
NewHandler == [pc |-> "construct", scraper |-> 0, step |-> 0]

\* The session webdriver.Chrome(...) starts for handler r.
NewBrowser(r) ==
    [created_by |-> r, state |-> "open", users |-> {}, quit_by |-> {},
     used_closed |-> FALSE]

\* A WebDriver command of handler r on session b.
Commanded(b, r) ==
    [b EXCEPT !.users = @ \cup {r},
              !.used_closed = @ \/ b.state = "closed"]

\* The session handler r works on: `scraper` is a local variable of
\* scrape_youtube, and self.driver an attribute of that instance.
ModuleLevelScraper(r) == Len(browsers)
LocalScraper(r) == handlers[r].scraper

IdleSessions ==
    /\ handlers = << >>
    /\ browsers = << >>

\* Requests that are in flight together.
InitSessions ==
    /\ IdleRetry
    /\ IdleScrape
    /\ IdleIg
    /\ IdleParse
    /\ IdleYt
    /\ IdleApi
    /\ \E n \in 1 .. MaxRequests : handlers = [r \in 1 .. n |-> NewHandler]
    /\ browsers = << >>

\* scraper = YouTubeScraper(headless=True): a new browser session, or
\* __init__ re-raises and the request is answered with 500.
Construct(r) ==
    /\ handlers[r].pc = "construct"
    /\ \E o \in ChromeOutcomes :
        IF o = NoExc
        THEN /\ browsers' = Append(browsers, NewBrowser(r))
             /\ handlers' = [handlers EXCEPT ![r].scraper = Len(browsers) + 1,
                                             ![r].pc = "scrape",
                                             ![r].step = 1]
        ELSE /\ browsers' = browsers
             /\ handlers' = [handlers EXCEPT ![r].pc = "responded"]
    /\ UNCHANGED notSessionVars

\* One step of scrape's body: a command on self.driver.  A failure ends
\* the body in its `except Exception` (inside reject_cookies it is
\* ignored); then the route calls scraper.quit().
Command(r) ==
    /\ handlers[r].pc = "scrape"
    /\ browsers' = [browsers EXCEPT ![LocalScraper(r)] = Commanded(@, r)]
    /\ \E o \in {NoExc} \cup StepFailures(Steps[handlers[r].step]) :
        IF StepRaises(Steps[handlers[r].step], o) = NoExc /\ handlers[r].step < Len(Steps)
        THEN handlers' = [handlers EXCEPT ![r].step = @ + 1]
        ELSE handlers' = [handlers EXCEPT ![r].pc = "quit"]
    /\ UNCHANGED notSessionVars

\* scraper.quit(): self.driver.quit() on the handler's session, then the
\* response.
QuitSession(r) ==
    /\ handlers[r].pc = "quit"
    /\ \E o \in DriverQuitOutcomes :
        browsers' = [browsers EXCEPT ![LocalScraper(r)] =
                        [Commanded(@, r) EXCEPT
                            !.quit_by = @ \cup {r},
                            !.state = IF o = NoExc THEN "closed" ELSE @]]
    /\ handlers' = [handlers EXCEPT ![r].pc = "responded"]
    /\ UNCHANGED notSessionVars

-----------------------------------------------------------------------------

Init ==
    \/ InitRetry /\ IdleIg /\ IdleParse /\ IdleYt /\ IdleApi /\ IdleSessions
    \/ InitScrape /\ IdleIg /\ IdleParse /\ IdleYt /\ IdleApi /\ IdleSessions
    \/ InitIg /\ IdleParse /\ IdleYt /\ IdleApi /\ IdleSessions
    \/ InitParse /\ IdleYt /\ IdleApi /\ IdleSessions
    \/ InitYt /\ IdleSessions
    \/ InitApi /\ IdleSessions
    \/ InitAnalyze /\ IdleSessions
    \/ InitSessions

Next ==
    \/ Attempt
    \/ BackoffSleep
    \/ AwaitCoroutine
    \/ ApiRequestAttempt
    \/ ApiRequestSleep
    \/ AcquireSucceeds
    \/ AcquireFails
    \/ \E i \in DOMAIN task : StartTask(i)
    \/ \E i \in DOMAIN task : FinishTask(i)
    \/ Assemble
    \/ GetProfileData
    \/ GetProfilePostsUrls
    \/ GatherProfile
    \/ \E i \in DOMAIN detailed_posts : GetPostDetails(i)
    \/ BuildCompleteData
    \/ ParseCountString
    \/ ParseProfileData
    \/ ParsePostData
    \/ VerifyApiKey
    \/ ValidateUrl
    \/ CreateScraper
    \/ CallScrape
    \/ ScrapeStep
    \/ Quit
    \/ Respond
    \/ HandleRequest
    \/ RouteRespond
    \/ AnalyzerVerifyApiKey
    \/ AnalyzeWebsite
    \/ AnalyzeRespond
    \/ \E r \in DOMAIN handlers : Construct(r)
    \/ \E r \in DOMAIN handlers : Command(r)
    \/ \E r \in DOMAIN handlers : QuitSession(r)

Spec == Init /\ [][Next]_vars

-----------------------------------------------------------------------------
(* Properties *)

AllRaised(seq) == \A i \in DOMAIN seq : seq[i].kind = "exc"
AllTransient(seq) ==
    \A i \in DOMAIN seq : seq[i].kind = "exc" /\ seq[i].type \in TransientTypes
AllRetryable(seq, types) ==
    \A i \in DOMAIN seq :
        seq[i].kind = "exc" /\ RetryIfExceptionType(seq[i].type, types)

\* C1: a synchronous operation decorated with retry_external_calls that
\* raises a retryable exception (one the decorator's exception types
\* cover) on every call is invoked exactly N = RETRY_ATTEMPTS times
\* (N = 1 included): it is never invoked more than N
\* times, it does not give up before the N-th invocation, and the exception
\* that reaches the caller is the one the N-th invocation raised.
C1_ExhaustionInvokesExactlyN ==
    ( /\ op \in SyncExternalOps
      /\ AllRetryable(outcomes, retry_external_calls.types) ) =>
        /\ Len(outcomes) <= settings.RETRY_ATTEMPTS
        /\ Len(outcomes) < settings.RETRY_ATTEMPTS => pc \in {"call", "sleep"}
        /\ pc = "raised" =>
            /\ Len(outcomes) = settings.RETRY_ATTEMPTS
            /\ raised = outcomes[settings.RETRY_ATTEMPTS]
            /\ raised.by = settings.RETRY_ATTEMPTS

C1_Witness ==
    /\ op = "external_call"
    /\ settings.RETRY_ATTEMPTS = RETRY_ATTEMPTS
    /\ pc = "raised"
    /\ AllTransient(outcomes)
    /\ Len(outcomes) = RETRY_ATTEMPTS
    /\ Len(sleeps) = RETRY_ATTEMPTS - 1

\* C2 (as claimed): HTTPClient.get and WebsiteHTTPClient.get retry
\* transient failures: when every GET fails with a connection error, a
\* timeout or a status error, the request has been issued RETRY_ATTEMPTS
\* times by the time the error reaches the caller; and when a GET succeeds
\* after k < RETRY_ATTEMPTS failed ones, the caller receives its response.
C2_HttpGetIssuedNTimes ==
    (op \in AsyncHttpOps /\ pc \in {"returned", "raised"}) =>
        /\ (pc = "raised" /\ AllTransient(outcomes)) =>
                Len(outcomes) = settings.RETRY_ATTEMPTS
        /\ pc = "returned" =>
                /\ Len(outcomes) <= settings.RETRY_ATTEMPTS
                /\ result = outcomes[Len(outcomes)]

\* C3 (as claimed): a fatal error raised by the first attempt of a
\* retry-wrapped operation (retry_external_calls, _make_api_request) ends
\* the call at once: when the call is over there has been exactly one
\* invocation and no backoff sleep, and the fatal error reached the caller.
C3_FatalErrorNotRetried ==
    ( /\ op \in SyncExternalOps \cup {"_make_api_request"}
      /\ pc \in {"returned", "raised"}
      /\ outcomes[1].kind = "exc"
      /\ outcomes[1].type \in FatalTypes ) =>
        /\ pc = "raised"
        /\ Len(outcomes) = 1
        /\ sleeps = << >>

\* C4 (as claimed): extract_response_body on a wrapper without a 'body'
\* field (or that is no mapping) raises after exactly one execution of its
\* body, with no backoff sleep.
C4_MissingBodyNotRetried ==
    ( /\ op = "extract_response_body"
      /\ response \in {"not_a_dict", "no_body"}
      /\ pc \in {"returned", "raised"} ) =>
        /\ pc = "raised"
        /\ Len(outcomes) = 1
        /\ sleeps = << >>

\* C5: a synchronous operation decorated with retry_external_calls that
\* raises on its first k < RETRY_ATTEMPTS invocations and succeeds on
\* invocation k+1 is invoked again after each of the k failures, is invoked
\* exactly k+1 times, hands the caller the value invocation k+1 returned,
\* and no exception reaches the caller.
C5_SuccessAfterKFailures ==
    op \in SyncExternalOps =>
        \A k \in 0 .. settings.RETRY_ATTEMPTS - 1 :
            /\ (Len(outcomes) = k /\ AllRaised(outcomes)) =>
                    pc \in {"call", "sleep"}
            /\ ( /\ Len(outcomes) >= k + 1
                 /\ AllRaised(SubSeq(outcomes, 1, k))
                 /\ outcomes[k + 1].kind = "ok" ) =>
                    /\ Len(outcomes) = k + 1
                    /\ pc = "returned"
                    /\ result = outcomes[k + 1]
                    /\ result.by = k + 1
                    /\ raised = NoOutcome

C5_Witness ==
    /\ op = "external_call"
    /\ settings.RETRY_ATTEMPTS = RETRY_ATTEMPTS
    /\ pc = "returned"
    /\ Len(outcomes) = RETRY_ATTEMPTS
    /\ AllRaised(SubSeq(outcomes, 1, RETRY_ATTEMPTS - 1))
    /\ result = Ok(RETRY_ATTEMPTS)

\* C6 (as claimed): the wait slept before attempt k >= 2 of an operation
\* wrapped by create_retry_decorator is
\* min(initial_wait * backoff_multiplier^(k-2), max_wait).  sleeps[j] is
\* the wait before attempt j+1; both sides are multiplied by 2^(j-1) to
\* stay in integers (half seconds, multiplier kept as twice its value).
C6_WaitIsInitialTimesMultiplierPower ==
    op \in TenacityOps =>
        \A j \in DOMAIN sleeps :
            sleeps[j] * Pow(2, j - 1) =
                Min(2 * settings.RETRY_WAIT_SECONDS
                        * Pow(settings.RETRY_BACKOFF_MULTIPLIER, j - 1),
                    2 * settings.RETRY_MAX_WAIT_SECONDS * Pow(2, j - 1))

AcquisitionFailed == acquired.kind = "exception"

\* C7: when acquisition succeeds and any subset of the analysis tasks
\* raises, scrape returns a result with error_message unset in which each
\* failed task's section holds the section's default and every other
\* section holds the value its task returned.
C7_FailedSectionsDefaulted ==
    (spc \in {"returned", "raised"} /\ acquired = AcquiredOk) =>
        /\ spc = "returned"
        /\ scrape_result.error_message = None
        /\ \A i \in Tasks(svc) :
            /\ task[i] = "failed" => scrape_result.sections[i] = Default(i)
            /\ task[i] = "ok" =>
                /\ scrape_result.sections[i] = gathered[i]
                /\ scrape_result.sections[i].kind = "value"

C7_Witness ==
    /\ spc = "returned"
    /\ svc = "instagram"
    /\ acquired = AcquiredOk
    /\ task[5] = "failed"
    /\ task[1] = "failed"
    /\ \A i \in Tasks(svc) \ {1, 5} : task[i] = "ok"
    /\ scrape_result.sections[5] = Default(5)
    /\ scrape_result.sections[2] = Value(2, MaxValue)

\* C8 (as claimed): if acquisition fails, no analysis task is ever
\* started, and scrape hands back a result that carries the target
\* identifier, a timestamp and a non-empty error_message.
C8_AcquisitionFailureGivesErrorResult ==
    AcquisitionFailed =>
        /\ \A i \in Tasks(svc) : task[i] = "notstarted"
        /\ spc = "returned"
        /\ scrape_result # NoResult
        /\ scrape_result.target = svc
        /\ scrape_result.error_message \notin {None, ""}

\* C9 (as claimed): scrape always returns a result object and never lets
\* an exception through to its caller.
C9_ScrapeNeverRaises ==
    spc # "raised" /\ scrape_raised = None

\* C10: no analysis task starts before acquisition has completed, and
\* scrape returns only after every analysis task has finished or failed: no
\* task is still pending (or not yet started, when acquisition succeeded)
\* once the result has been assembled.
C10_AcquisitionThenFullBarrier ==
    spc # "idle" =>
        /\ \A i \in Tasks(svc) : task[i] # "notstarted" => acquired = AcquiredOk
        /\ spc \in {"returned", "raised"} =>
            \A i \in Tasks(svc) :
                /\ task[i] # "running"
                /\ acquired = AcquiredOk => task[i] \in {"ok", "failed"}

C10_Witness ==
    /\ spc = "returned"
    /\ acquired = AcquiredOk
    /\ \E i, j \in Tasks(svc) : task[i] = "failed" /\ task[j] = "ok"

AllRequestsOk == \A i \in DOMAIN requests : requests[i].ok

ProfileRequests ==
    {i \in DOMAIN requests : requests[i].scraper = "instagram-profile"}

\* C11 (as claimed): a call of get_complete_profile_data in which every
\* backend call succeeds performs exactly one 'instagram-profile' request,
\* and the profile fields and the posts of the returned dictionary are
\* computed from that single response.
C11_ProfileAcquiredOnce ==
    (ipc = "returned" /\ AllRequestsOk) =>
        /\ Cardinality(ProfileRequests) = 1
        /\ ig_result.profile_from \in ProfileRequests
        /\ ig_result.urls_from = ig_result.profile_from

\* C12 (as claimed): no analysis task modifies the snapshot it shares with
\* its siblings: at every moment of the gather, and once all tasks have
\* run, the shared object equals what acquisition produced.
C12_SnapshotNeverModified ==
    acquired = AcquiredOk => snapshot = page

CountReturned == nfun = "parse_count_string" /\ npc = "returned"

\* The string parse_count_string works on, when its argument has one.
ArgumentString(v) ==
    IF v.type = "str" \/ (v.type = "dict" /\ v.vtype = "str") THEN v.str ELSE << >>

\* C13 (as claimed): parse_count_string returns a non-negative integer for
\* every input (an integer, a string, a mapping with or without 'value',
\* null or another type), and 0 whenever the input holds no digit to parse
\* (also when it holds a multiplier marker).
C13_CountIsNonNegativeInteger ==
    CountReturned =>
        /\ parsed.count.type = "int"
        /\ parsed.count.int >= 0
        /\ ( /\ count_str.type # "int"
             /\ ~(count_str.type = "dict" /\ count_str.vtype = "int")
             /\ OnlyDigits(ArgumentString(count_str)) = << >> ) =>
                parsed.count.int = 0

\* The multiplier a marker stands for.
MarkerValue(m) == IF LowerChar(m) = "k" THEN THOUSAND ELSE MILLION

\* C14 (as claimed): for a string "<a><sep><b><marker>", with or without
\* the counted word, parse_count_string returns the decimal number a.b
\* (',' read as the decimal point) times 1,000 or 1,000,000; for a string
\* without a marker it strips ',' and returns the digits.
C14_SuffixMultipliesMantissa ==
    (CountReturned /\ count_str.type = "str") =>
        /\ \A a \in 0 .. MaxMantissa, b \in 0 .. 9 :
             \A sep \in {".", ","}, m \in {"K", "M", "k", "m"} :
                LET str == Mantissa(a, sep, b) \o <<m>>
                IN  ( \/ count_str.str = str
                      \/ count_str.str = str \o <<" ", "f", "o", "l", "l", "o", "w", "e", "r", "s">> ) =>
                        parsed.count = PyInt((10 * a + b) * (MarkerValue(m) \div 10))
        /\ count_str.str = <<"1", ",", "2", "6", "3", " ", "p", "o", "s", "t", "s">> =>
                parsed.count = PyInt(1263)
        /\ count_str.str = <<"1", ",", "2", "6", "3">> =>
                parsed.count = PyInt(1263)

IsCounter(v) == v.type = "int" /\ v.int >= 0

\* C15 (as claimed): after parse_profile_data, followers_count is the
\* larger and following_count the smaller of the two counts parsed from
\* the payload, so followers_count is not below following_count (stated
\* for payloads whose two counts parse to non-negative integers).
C15_FollowersNotBelowFollowing ==
    ( /\ nfun = "parse_profile_data"
      /\ npc = "returned"
      /\ IsCounter(parsed.followers_count)
      /\ IsCounter(parsed.following_count) ) =>
        /\ parsed.followers_count.int >= parsed.following_count.int
        /\ parsed.followers_count.int =
                Max(parse_count_string(raw_data.followersCount).int,
                    parse_count_string(raw_data.followingCount).int)

\* C16 (as claimed): every counter a parser method hands back -
\* followers, following and posts of the profile, likes and comments of a
\* post - is a non-negative integer.
C16_CountersAreNonNegativeIntegers ==
    /\ (nfun = "parse_profile_data" /\ npc = "returned") =>
            /\ IsCounter(parsed.followers_count)
            /\ IsCounter(parsed.following_count)
            /\ IsCounter(parsed.posts_count)
    /\ (nfun = "parse_post_data" /\ npc = "returned") =>
            /\ IsCounter(parsed.likes_count)
            /\ IsCounter(parsed.comments_count)

\* C17 (as claimed): formatting n >= 0 as "<n/1000 with one decimal>K"
\* and parsing the string gives n rounded to the nearest hundred.
C17_KFormatRoundTrip ==
    (CountReturned /\ formatted >= 0) =>
        parsed.count = PyInt(100 * ((formatted + 50) \div 100))

\* scrape has ended: its body was started and control is back in the route.
ScrapeEnded == sequences > 0 /\ ypc \in {"quit", "check", "responded"}

\* C18: for every request to POST /scrape/youtube that has created a
\* browser session, scraper.quit() has been called exactly once when the
\* response is produced, whether scrape returned a channel result or an
\* error result (it cannot raise); quit is never called twice, no response
\* exists before the request has ended, and an exception raised by
\* driver.quit() never leaves scraper.quit(): the response is then still
\* the one the scrape result decides (200 or 422).
C18_SessionQuitExactlyOnce ==
    /\ quits <= 1
    /\ quit_escaped = NoExc
    /\ yt_response # NoResponse => ypc = "responded"
    /\ (driver # "none" /\ ypc = "responded") =>
        /\ quits = 1
        /\ driver \in {"closed", "quit_failed"}
        /\ yt_response.status = IF caught = NoExc THEN 200 ELSE 422

\* A session whose driver.quit() raised, after a scrape that returned an
\* error result: quit was called once and the request was answered.
C18_Witness ==
    /\ ypc = "responded"
    /\ driver = "quit_failed"
    /\ quits = 1
    /\ caught # NoExc
    /\ yt_response.status = 422

\* C19 (as claimed): when a DOM-element wait has timed out inside
\* YouTubeScraper.scrape and the failure has been reported to the caller,
\* the navigation-and-extraction sequence has been executed from the start
\* as many times as the retry policy allows attempts.
C19_TimeoutRetriesWholeSequence ==
    ( /\ ScrapeEnded
      /\ caught.type = "selenium.TimeoutException"
      /\ Steps[step] \in TextFields ) =>
        sequences = retry_selenium_operations.stop

\* C20: YouTubeScraper.scrape never raises.  When a navigation or a DOM
\* wait failed, it has returned a result whose error_message is a
\* non-empty string (str of the exception), whose five text fields are
\* empty strings and whose video list is empty; when every step succeeded
\* it has returned the page's texts with error_message unset (None).
C20_ScrapeReturnsResultOrErrorResult ==
    /\ yt_raised = NoExc
    /\ ScrapeEnded =>
        IF caught # NoExc
        THEN /\ Truthy(yt_result.error_message)
             /\ yt_result.error_message = StrOfException(caught)
             /\ \A f \in TextFields : yt_result[f] = ""
             /\ yt_result.first_10_videos = << >>
        ELSE /\ yt_result.error_message = None
             /\ \A f \in TextFields : yt_result[f] = channel[f]

\* The wait for the subscriber count timed out and scrape has returned.
C20_Witness ==
    /\ ypc = "quit"
    /\ caught = Error("selenium.TimeoutException", "")
    /\ Steps[step] = "subscribers"
    /\ yt_result.error_message = "Message: \n"
    /\ yt_result.channel_name = ""

\* The hrefs of a list of anchors that are video links; a sequence without
\* its repeated entries; its first n entries.
Matching(elements) ==
    SelectSeq(elements, LAMBDA h : h # << >> /\ Contains(h, WatchMarker))
RECURSIVE Distinct(_)
Distinct(q) ==
    IF q = << >> THEN << >>
    ELSE LET r == Distinct(SubSeq(q, 1, Len(q) - 1))
         IN  IF InSeq(q[Len(q)], r) THEN r ELSE Append(r, q[Len(q)])
Take(q, n) == SubSeq(q, 1, Min(n, Len(q)))

\* C21: the video-link list of a result YouTubeScraper.scrape returned
\* after all its steps succeeded has at most 10 entries, no entry twice,
\* only hrefs that hold "watch?v=", and is the first (up to 10) distinct
\* matching hrefs in the order of their anchors; the anchors after the one
\* that gave the 10th distinct link do not matter.
C21_FirstTenDistinctVideoLinks ==
    (ScrapeEnded /\ caught = NoExc) =>
        LET v == yt_result.first_10_videos
            elements == channel.elements
        IN  /\ Len(v) <= VIDEO_CAP
            /\ \A i, j \in DOMAIN v : v[i] = v[j] => i = j
            /\ \A i \in DOMAIN v : Contains(v[i], WatchMarker)
            /\ v = Take(Distinct(Matching(elements)), VIDEO_CAP)
            /\ \A k \in DOMAIN elements :
                Len(Distinct(Matching(SubSeq(elements, 1, k)))) = VIDEO_CAP =>
                    v = Distinct(Matching(SubSeq(elements, 1, k)))

\* A page with more than 10 distinct video links, one of them on two
\* anchors: scrape returned exactly 10.
C21_Witness ==
    /\ ScrapeEnded
    /\ caught = NoExc
    /\ Len(Distinct(Matching(channel.elements))) > VIDEO_CAP
    /\ Len(Matching(channel.elements)) > Len(Distinct(Matching(channel.elements)))
    /\ Len(yt_result.first_10_videos) = VIDEO_CAP

\* What scrape returns for a page when nothing but the cookie dismissal
\* can have failed: the page's texts and links, or the error result of the
\* exception that a later step raised.
OutcomeWithoutCookies ==
    IF caught = NoExc
    THEN ScrapeReturn(channel, channel.elements)
    ELSE ScrapeExcept(caught).value

\* C22: a failure of the cookie-consent dismissal (the wait for the reject
\* button times out, or the click raises) is swallowed: it is never the
\* exception scrape's except clause catches, scrape goes on to the channel
\* navigation and the extraction steps, and when scrape has ended its
\* result is the one the same page and the same later failure (if any)
\* give when the dismissal succeeds.
C22_CookieFailureIgnored ==
    /\ caught # NoExc => Steps[step] # "reject_cookies"
    /\ cookies = "ignored" =>
        /\ step > 2
        /\ yt_raised = NoExc
        /\ ScrapeEnded => yt_result = OutcomeWithoutCookies

\* The dismissal failed and scrape still returned the channel's data.
C22_Witness ==
    /\ cookies = "ignored"
    /\ ScrapeEnded
    /\ caught = NoExc
    /\ yt_result.channel_name = channel.channel_name
    /\ yt_result.error_message = None

\* C25 (as claimed): a POST /scrape/youtube whose X-API-Key header is
\* absent, empty or different from the configured API_KEY is answered with
\* 401, and no browser session was created for it.
C25_BadKeyAnswered401 ==
    (ypc = "responded" /\ x_api_key # API_KEY) =>
        /\ yt_response.status = 401
        /\ driver = "none"
        /\ sequences = 0

\* C23 (as claimed): for each of POST /scrape/youtube, /scrape/instagram
\* and /scrape/website, a well-formed request with the right API key whose
\* acquisition failed (the profile fetch or the page fetch raised; a
\* navigation or a DOM wait of the channel scrape raised) is answered with
\* 422 and a detail that carries an error message, never with 200 or 500.
C23_AcquisitionFailureAnswered422 ==
    /\ ( /\ rpc = "responded"
         /\ headers = API_KEY
         /\ acquired.kind = "exception" ) =>
            /\ api_response.status = 422
            /\ api_response.detail # FailedToScrape(endpoint)
    /\ ( /\ ypc = "responded"
         /\ x_api_key = API_KEY
         /\ caught # NoExc ) =>
            /\ yt_response.status = 422
            /\ yt_response.detail # "Failed to scrape YouTube: "

\* C26 (as claimed): every scraping endpoint of the main app rejects a
\* request whose API key is missing or wrong with 401 before any
\* acquisition call: no acquisition runs for such a request.
C26_NoAcquisitionWithoutKey ==
    /\ (rpc # "idle" /\ headers # API_KEY) =>
        /\ acquired = NotAcquired
        /\ rpc = "responded" => api_response.status = 401
    /\ (ypc # "idle" /\ x_api_key # API_KEY) =>
        /\ driver = "none"
        /\ sequences = 0
        /\ ypc = "responded" => yt_response.status \in {401, 422}

\* The characters a username may hold, and a username without one
\* leading '@'.
UsernameChars == AlnumChars \cup {"_", "."}
WithoutOneAt(s) == IF s # << >> /\ Head(s) = "@" THEN Tail(s) ELSE s
HasOtherChars(s) == \E i \in DOMAIN s : s[i] \notin UsernameChars

\* Requests the claim says are answered with 400: the YouTube request's
\* url is empty or blank; the Instagram request's username, stripped as
\* given, is empty or holds a character that is not allowed.
BlankUrl == Strip(url) = << >>
RejectedUsername(stripped) == stripped = << >> \/ HasOtherChars(stripped)

\* The request was answered with 400 before any scraper existed.
YouTubeAnswered400 ==
    /\ ypc = "responded"
    /\ yt_response.status = 400
    /\ driver = "none"
    /\ sequences = 0
InstagramAnswered400 ==
    /\ rpc = "responded"
    /\ api_response.status = 400
    /\ svc = None
    /\ acquired = NotAcquired

\* C27 (as claimed): an authenticated POST /scrape/youtube whose url is
\* empty or only whitespace, and a POST /scrape/instagram whose username is
\* empty after stripping whitespace and one leading '@' or then holds
\* characters other than letters, digits, '_' and '.', is answered with
\* 400, and no scraper is constructed and no acquisition call is made.
C27_BadInputAnswered400 ==
    /\ ( /\ ypc \notin {"idle", "verify_api_key", "request"}
         /\ x_api_key = API_KEY
         /\ BlankUrl ) => YouTubeAnswered400
    /\ ( /\ rpc \notin {"idle", "request"}
         /\ endpoint = "instagram"
         /\ RejectedUsername(WithoutOneAt(Strip(username))) ) =>
            InstagramAnswered400

\* C27 (amended): the same, with the username stripped of whitespace and
\* of every leading '@' (str.lstrip): '@@nasa' is the username 'nasa'.
C27_BadInputAnswered400_Amended ==
    /\ ( /\ ypc \notin {"idle", "verify_api_key", "request"}
         /\ x_api_key = API_KEY
         /\ BlankUrl ) => YouTubeAnswered400
    /\ ( /\ rpc \notin {"idle", "request"}
         /\ endpoint = "instagram"
         /\ RejectedUsername(LStripAt(Strip(username))) ) =>
            InstagramAnswered400

\* A username with a character that is not allowed was answered with 400.
C27_Witness ==
    /\ InstagramAnswered400
    /\ username = <<"n", "!">>
    /\ api_response.detail = "Invalid Instagram username format"

\* C24: POST /analyze answers an authenticated request whose page fetch
\* fails with HTTP 422 carrying an error message, and answers 200 only
\* with a result whose analysis_success is true.
C24_FetchFailureAnswered422 ==
    ( /\ endpoint = "analyze"
      /\ rpc = "responded"
      /\ headers = API_KEY ) =>
        /\ pc = "raised" =>
            /\ api_response.status = 422
            /\ api_response.detail # ""
        /\ api_response.status = 200 => analysis.analysis_success

\* C28: _make_api_request calls the backend at most retry_count + 1
\* times; a raised exception and a response whose status_code is not 200
\* are both failed attempts; it sleeps (attempt + 1) seconds between
\* consecutive attempts and never after the last one; it returns the first
\* response with status_code 200 without further calls; and when all
\* attempts fail it raises the error of the last attempt.
C28_ApiRequestRetryLoop ==
    op = "_make_api_request" =>
        LET n == Len(outcomes) IN
        /\ n <= retry_count + 1
        /\ \A i \in 1 .. n - 1 : outcomes[i].kind = "exc"
        /\ \A k \in DOMAIN sleeps : sleeps[k] = 2 * k
        /\ Len(sleeps) = IF pc = "call" THEN n ELSE Max(n - 1, 0)
        /\ pc = "sleep" => outcomes[n].kind = "exc" /\ n <= retry_count
        /\ pc = "returned" =>
            /\ outcomes[n].kind = "ok"
            /\ result = outcomes[n]
            /\ raised = NoOutcome
        /\ pc = "raised" =>
            /\ n = retry_count + 1
            /\ outcomes[n].kind = "exc"
            /\ raised = outcomes[n]
            /\ raised = last_error
            /\ result = NoOutcome

\* Two attempts failed, one by an exception and one by a status that is
\* not 200, the third returned 200 after sleeps of 1 and 2 seconds.
C28_Witness ==
    /\ op = "_make_api_request"
    /\ pc = "returned"
    /\ Len(outcomes) = 3
    /\ outcomes[1].type = "ConnectionError"
    /\ outcomes[2].type = "Exception"
    /\ sleeps = <<2, 4>>

\* C29: under any interleaving of concurrent POST /scrape/youtube
\* requests, each request creates its own browser session, uses and closes
\* only that session, and no session is used by two requests or used after
\* it has been closed.
C29_SessionsNeverShared ==
    /\ \A r \in DOMAIN handlers :
        handlers[r].pc \in {"scrape", "quit"} =>
            /\ handlers[r].scraper \in DOMAIN browsers
            /\ browsers[handlers[r].scraper].created_by = r
    /\ \A b \in DOMAIN browsers :
        /\ browsers[b].users \subseteq {browsers[b].created_by}
        /\ browsers[b].quit_by \subseteq {browsers[b].created_by}
        /\ ~browsers[b].used_closed
    /\ \A b, c \in DOMAIN browsers :
        browsers[b].created_by = browsers[c].created_by => b = c

\* Two requests are in flight together: request 2 created the first
\* session and is still scraping on it while request 1, whose session is
\* the second one, has finished scraping and is about to quit its own.
C29_Witness ==
    /\ Len(handlers) = 2
    /\ Len(browsers) = 2
    /\ browsers[1].created_by = 2
    /\ handlers[1].pc = "quit"
    /\ handlers[2].pc = "scrape"
    /\ handlers[2].step > 1
    /\ browsers[1].state = "open"
    /\ browsers[2].users = {1}

\* The requests made so far by one caller, and the failed ones among them.
RequestsOf(caller) == SelectSeq(requests, LAMBDA q : q.caller = caller)
FailedRequests(q) == SelectSeq(q, LAMBDA x : ~x.ok)

\* C30: in get_complete_profile_data a post whose detail fetch or parse
\* fails is omitted from 'posts' without failing the request; detail
\* fetches are made for at most max_posts post URLs; a failure to obtain
\* the post-URL list yields an empty 'posts' list rather than an error;
\* and the call raises only when a fetch of the profile itself (by
\* get_profile_data or by get_complete_profile_data) has failed.
C30_PostFailuresTolerated ==
    ipc # "idle" =>
        LET details == RequestsOf("get_post_details")
            urls == RequestsOf("get_profile_posts_urls")
            profile == RequestsOf("get_profile_data") \o
                       RequestsOf("get_complete_profile_data")
        IN  /\ Len(details) <= max_posts
            /\ ipc = "returned" =>
                /\ Len(ig_result.posts) = Len(details) - Len(FailedRequests(details))
                /\ \A i \in DOMAIN ig_result.posts : ig_result.posts[i] = "post"
                /\ FailedRequests(profile) = << >>
                /\ FailedRequests(urls) # << >> =>
                    ig_result.posts = << >> /\ details = << >>
            /\ ipc = "raised" => FailedRequests(profile) # << >>
            /\ ( /\ FailedRequests(profile) = << >>
                 /\ Len(profile) = 2 ) => ipc = "returned"

\* Three URLs were found and max_posts = 2 kept; one detail fetch failed
\* and the call returned the other post.
C30_Witness ==
    /\ ipc = "returned"
    /\ max_posts = 2
    /\ preview = 3
    /\ Len(FailedRequests(RequestsOf("get_post_details"))) = 1
    /\ ig_result.posts = <<"post">>


=============================================================================
